---- MODULE Spec2Model ----
(***************************************************************************)
(* A model of the news pipeline of scripts/news_fetcher.py: the            *)
(* persistence gate (save_news_item), the aggregator's merge               *)
(* (gather_all_articles), the extraction engine (analyze_with_claude and   *)
(* analyze_with_claude_async), the two file caches, a pipeline run         *)
(* (_fetch_all_news_async_inner, and run_onboarding of onboarding_agent.py *)
(* as worker/app.py starts it), the keyword-search requests that share     *)
(* SERPER_SEMAPHORE, one competitor's run from analysis to the store       *)
(* (fetch_news_for_competitor_async), the parser of grounded responses     *)
(* (_parse_gemini_grounding), the keyword search of one competitor         *)
(* (search_news and search_news_async), the competitor sync of             *)
(* scripts/sync_competitors.py, and the functions whose result depends on  *)
(* their arguments only (get_native_region, is_news_url, the repair of a   *)
(* truncated model response, the two engines run on the same answers, an   *)
(* adapter called with different time windows).                            *)
(*                                                                         *)
(* Each component has its own variables, its own initial predicate and     *)
(* its own specification; a component's specification holds the other      *)
(* components' variables at their initial values.                          *)
(*                                                                         *)
(* Text is a sequence of tokens, one token per character or per fragment   *)
(* that the code treats as a unit.  A point in time is a day number,       *)
(* Day(y, n) being day n of year y.                                        *)
(***************************************************************************)
EXTENDS Integers, Sequences, FiniteSets, TLC

VARIABLES
    now,            \* the wall clock, a day number
    \* the persistence gate
    store,          \* the rows of table "CompetitorNews", in insertion order
    days_back,      \* the run's day window (0: none), known to the caller of save_news_item only
    last,           \* <<>> or <<r>>: what the latest save_news_item call made in sequence returned
    task,           \* the per-competitor tasks of one batch, each saving its news_items through a thread
    \* gather_all_articles
    gather_pc,      \* "idle", "gathered" (the three adapters have ended) or "merged"
    results,        \* what asyncio.gather returned: the outcome of each adapter
    merged,         \* the list gather_all_articles returns
    \* the extraction engine
    analyze_pc,     \* "idle", "call" (about to call the model), "returned" or "raised"
    engine,         \* "async" (analyze_with_claude_async) or "sync" (analyze_with_claude)
    articles,       \* the articles handed to the engine
    batch_start,    \* the loop variable of the batch loop
    attempt,        \* the loop variable of the retry loop
    all_news_items, \* the items collected so far
    item_batch,     \* for each collected item, the number of the batch it was extracted from
    batch_log,      \* for each batch begun, the model calls made for it, how many of them failed,
                    \* how many were answered with the no_relevant_news object, and the links of
                    \* the articles its prompt held
    \* the two result caches
    cache_dirs,     \* for each cache, whether its directory exists
    cache_files,    \* for each cache file path, what the file holds
    cache_last,     \* the last cache or adapter call: what it was given and what came back
    \* a pipeline run
    run_pc,         \* where the run is: "idle", "startup", "prepare", "batch", "gathering",
                    \* "cooldown", "onboard", "processing", "returned" or "raised"
    run_input,      \* what the run was started with
    tasks,          \* for each competitor of the run, the state of its task
    fetch_batch_start, \* the loop variable of the competitor loop
    total_news,     \* the sum of the results of the tasks
    status_log,     \* the statuses written by write_status, in order
    cooldowns,      \* the number of cooldown sleeps made
    store_touched,  \* whether the run has read from or deleted from the store
    \* the keyword-search requests of the process
    SERPER_SEMAPHORE, \* the global semaphore: whether it was made, and its free permits
    semaphores_made,  \* how many semaphores the process has made
    serper_key,       \* whether SERPER_API_KEY is set
    call_pc,          \* for each search_serper_async call: "idle", "waiting", "in_flight",
                      \* "done" or "exhausted" (returned after a credits-exhausted response)
    \* _parse_gemini_grounding
    parse_pc,       \* "idle", "ready" (a response has arrived) or "parsed"
    response,       \* the grounded response: its text lines, grounding supports and chunks
    parsed_articles, \* the articles _parse_gemini_grounding returned
    \* the keyword-search adapter
    news_pc,        \* search_news / search_news_async: the adapter, the phase and the next (region, query)
    news_input,     \* the arguments: regions_to_search and native_region
    all_results,    \* the articles collected so far, in order
    seen_urls,      \* the links seen so far
    search_log,     \* what each keyword search made so far returned, with its region key
    \* the competitor sync
    sync_pc,        \* sync of sync_competitors.py: "idle", "ready" or "done"
    competitor_rows,\* table "Competitor": the status of each name ("none": no row; "null": status NULL)
    csv_names,      \* the names load_csv returned
    dry_run,        \* the --dry-run flag
    rows_before,    \* table "Competitor" when sync began
    \* pure functions
    pure_call,      \* a call of a function without side effects: its name and argument
    pure_result     \* <<>> or <<v>>: what the call returned

storeVars == <<store, days_back, last, task>>

gatherVars == <<gather_pc, results, merged>>

analyzeVars ==
    <<analyze_pc, engine, articles, batch_start, attempt, all_news_items, item_batch, batch_log>>

cacheVars == <<cache_dirs, cache_files, cache_last>>

runVars ==
    <<run_pc, run_input, tasks, fetch_batch_start, total_news, status_log, cooldowns, store_touched>>

serperVars == <<SERPER_SEMAPHORE, semaphores_made, serper_key, call_pc>>

parseVars == <<parse_pc, response, parsed_articles>>

newsVars == <<news_pc, news_input, all_results, seen_urls, search_log>>

syncVars == <<sync_pc, competitor_rows, csv_names, dry_run, rows_before>>

pureVars == <<pure_call, pure_result>>

vars ==
    <<now, storeVars, gatherVars, analyzeVars, cacheVars, runVars, serperVars, parseVars, newsVars,
      syncVars, pureVars>>

\* what each component leaves alone
outsideStore ==
    <<gatherVars, analyzeVars, cacheVars, runVars, serperVars, parseVars, newsVars,
      syncVars, pureVars>>

outsideGather ==
    <<now, storeVars, analyzeVars, cacheVars, runVars, serperVars, parseVars, newsVars,
      syncVars, pureVars>>

outsideAnalyze ==
    <<now, storeVars, gatherVars, cacheVars, runVars, serperVars, parseVars, newsVars,
      syncVars, pureVars>>

outsideCache ==
    <<storeVars, gatherVars, analyzeVars, runVars, serperVars, parseVars, newsVars,
      syncVars, pureVars>>

outsideRun ==
    <<now, storeVars, gatherVars, analyzeVars, cacheVars, serperVars, parseVars, newsVars,
      syncVars, pureVars>>

outsideSerper ==
    <<now, storeVars, gatherVars, analyzeVars, cacheVars, runVars, parseVars, newsVars,
      syncVars, pureVars>>

outsideParse ==
    <<now, storeVars, gatherVars, analyzeVars, cacheVars, runVars, serperVars, newsVars,
      syncVars, pureVars>>

outsideNews ==
    <<now, storeVars, gatherVars, analyzeVars, cacheVars, runVars, serperVars, parseVars,
      syncVars, pureVars>>

outsideSync ==
    <<now, storeVars, gatherVars, analyzeVars, cacheVars, runVars, serperVars, parseVars,
      newsVars, pureVars>>

outsidePure ==
    <<now, storeVars, gatherVars, analyzeVars, cacheVars, runVars, serperVars, parseVars,
      newsVars, syncVars>>

(***************************************************************************)
(* Helpers on sequences                                                    *)
(***************************************************************************)
Min(a, b) == IF a <= b THEN a ELSE b

Max(a, b) == IF a >= b THEN a ELSE b

Range(s) == {s[i] : i \in DOMAIN s}

\* s[:n] of Python
Prefix(s, n) == SubSeq(s, 1, Min(Len(s), n))

\* pat in s of Python: pat occurs in s as a contiguous run
Contains(s, pat) ==
    \E i \in 0..(Len(s) - Len(pat)) : SubSeq(s, i + 1, i + Len(pat)) = pat

RECURSIVE SelectTokens(_, _)
SelectTokens(s, keep) ==
    IF s = <<>> THEN <<>>
    ELSE (IF Head(s) \in keep THEN <<Head(s)>> ELSE <<>>) \o SelectTokens(Tail(s), keep)

(***************************************************************************)
(* sanitize_text                                                           *)
(***************************************************************************)
\* plain ASCII characters and fragments
AsciiTokens == {"a", "b", "t", "u", "example.", "com", "'", " "}

\* characters of the class [\x00-\x08\x0b\x0c\x0e-\x1f\x7f-\x9f]
ControlTokens == {"\\x00"}

\* typographic characters that sanitize_text rewrites
TypographicTokens == {"rsquo", "nbsp"}

\* any other character outside ASCII
ForeignTokens == {"eacute"}

Tokens == AsciiTokens \cup ControlTokens \cup TypographicTokens \cup ForeignTokens

Replacement(c) ==
    CASE c = "rsquo" -> "'"
      [] c = "nbsp" -> " "
      [] OTHER -> c

RECURSIVE StripLeft(_)
StripLeft(s) ==
    IF s # <<>> /\ Head(s) = " " THEN StripLeft(Tail(s)) ELSE s

RECURSIVE StripRight(_)
StripRight(s) ==
    IF s # <<>> /\ s[Len(s)] = " " THEN StripRight(SubSeq(s, 1, Len(s) - 1)) ELSE s

Strip(s) == StripRight(StripLeft(s))

sanitize_text(text) ==
    IF text = <<>> THEN <<>>
    ELSE LET noControl == SelectTokens(text, Tokens \ ControlTokens)
             replaced == [i \in DOMAIN noControl |-> Replacement(noControl[i])]
             ascii == SelectTokens(replaced, AsciiTokens)
         IN  Strip(ascii)

(***************************************************************************)
(* Dates                                                                   *)
(***************************************************************************)
Day(y, n) == y * 365 + n

YearOf(d) == d \div 365

\* a date string that strptime('%Y-%m-%d') rejects
BadDate == -1

CUTOFF_YEAR == 2025

LENIENT_YEAR == 2024

cutoff == Day(CUTOFF_YEAR, 0)

TITLE_MAX == 200

\* the clock when the model starts, and how far it may advance
StartNow == Day(CUTOFF_YEAR, 100)

MaxTicks == 1

(***************************************************************************)
(* The inputs of save_news_item                                            *)
(***************************************************************************)
Competitors == {"c1", "c2"}

RawUrls ==
    { <<>>, <<"a">>, <<"a", "eacute">>, <<"b">>, <<"example.", "\\x00", "com", "a">> }

RawTitles == { <<"t">>, <<" ", "t">>, <<"u">> }

RawDates ==
    { BadDate, Day(LENIENT_YEAR - 1, 200), Day(LENIENT_YEAR, 200),
      Day(CUTOFF_YEAR, 90), Day(CUTOFF_YEAR + 1, 0) }

SearchRegions == {"global", "gemini_search"}

\* news_item.get('threat_level', 2) before int(): the key is missing, or its
\* value is null, an integer, a fraction (v in tenths), a string holding
\* an integer literal, or a string int() does not accept
NoThreat == [kind |-> "missing", v |-> 0]

ThreatInputs ==
    {NoThreat, [kind |-> "null", v |-> 0], [kind |-> "text", v |-> 0]}
        \cup [kind : {"int", "numeral"}, v : {-3, 0, 1, 3, 5, 6, 9}]
        \cup [kind : {"float"}, v : {-5, 9, 37, 59, 60}]

NewsItems ==
    [source_url : RawUrls, title : RawTitles, date : RawDates, _search_region : SearchRegions,
     threat_level : {NoThreat}]

\* items that differ in their threat level
ThreatItems ==
    [source_url : {<<"a">>, <<"b">>}, title : {<<"t">>, <<"u">>}, date : {Day(CUTOFF_YEAR, 90)},
     _search_region : {"global"}, threat_level : ThreatInputs]

DayWindows == {0, 7}

(***************************************************************************)
(* save_news_item                                                          *)
(***************************************************************************)
Row(competitor_id, title, source_url, news_date, extracted, threat) ==
    [competitorId |-> competitor_id, title |-> title, sourceUrl |-> source_url,
     date |-> news_date, extractedAt |-> extracted, threatLevel |-> threat]

InvalidUrl(source_url) ==
    source_url = <<>> \/ Contains(source_url, <<"example.", "com">>)

check_existing_url_never(st, url) == FALSE

\* SELECT id FROM "CompetitorNews" WHERE "sourceUrl" = url
check_existing_url(st, url) ==
    \E i \in DOMAIN st : st[i].sourceUrl = url

title_exists_any_competitor(st, competitor_id, title) ==
    \E i \in DOMAIN st : st[i].title = title

\* SELECT id FROM "CompetitorNews" WHERE "competitorId" = competitor_id AND "title" = title
title_exists(st, competitor_id, title) ==
    \E i \in DOMAIN st : st[i].competitorId = competitor_id /\ st[i].title = title

title_check(news_item) == Prefix(sanitize_text(news_item.title), TITLE_MAX)

ParseDate(date_str, nw) == IF date_str = BadDate THEN nw ELSE date_str

CappedDate_uncapped(news_item, nw) == ParseDate(news_item.date, nw)

\* the date after parsing and after the cap on future dates
CappedDate(news_item, nw) ==
    LET parsed == ParseDate(news_item.date, nw)
    IN  IF parsed > nw THEN nw ELSE parsed

Rejected(st, reason) == [ok |-> FALSE, reason |-> reason, store |-> st]

DEFAULT_THREAT == 2

\* int(threat_level): a fraction is cut towards zero; what int() does not
\* accept raises
IntOf(t) ==
    IF t.kind \in {"int", "numeral"} THEN [raised |-> FALSE, v |-> t.v]
    ELSE IF t.kind = "float"
    THEN [raised |-> FALSE, v |-> IF t.v >= 0 THEN t.v \div 10 ELSE -((-t.v) \div 10)]
    ELSE [raised |-> TRUE, v |-> 0]

ThreatLevel_unclamped(t) ==
    IF t.kind = "missing" \/ IntOf(t).raised THEN DEFAULT_THREAT ELSE IntOf(t).v

\* threat_level = news_item.get('threat_level', 2); try: int(...) except: 2;
\* max(1, min(5, threat_level))
ThreatLevel(t) ==
    LET n == IF t.kind = "missing" \/ IntOf(t).raised THEN DEFAULT_THREAT ELSE IntOf(t).v
    IN  Max(1, Min(5, n))

InsertPhase_no_cutoff(st, competitor_id, news_item, nw) ==
    [ok |-> TRUE, reason |-> "saved",
     store |-> Append(st, Row(competitor_id, title_check(news_item),
                              sanitize_text(news_item.source_url), CappedDate(news_item, nw), nw,
                              ThreatLevel(news_item.threat_level)))]

\* the try block: dates, the cutoff and the INSERT
InsertPhase(st, competitor_id, news_item, nw) ==
    LET source_url == sanitize_text(news_item.source_url)
        title == title_check(news_item)
        news_date == CappedDate(news_item, nw)
        lenient == news_item._search_region = "gemini_search"
        stored_date == IF news_date < cutoff /\ lenient /\ YearOf(news_date) < LENIENT_YEAR
                       THEN nw ELSE news_date
    IN  IF news_date < cutoff /\ ~lenient
        THEN Rejected(st, "pre_2025")
        ELSE [ok |-> TRUE, reason |-> "saved",
              store |-> Append(st, Row(competitor_id, title, source_url, stored_date, nw,
                                       ThreatLevel(news_item.threat_level)))]

\* the title check, reached when the URL is valid and not stored
TitlePhase_date_first(st, competitor_id, news_item, nw) ==
    IF CappedDate(news_item, nw) < cutoff /\ news_item._search_region # "gemini_search"
    THEN Rejected(st, "pre_2025")
    ELSE IF title_exists(st, competitor_id, title_check(news_item))
    THEN Rejected(st, "duplicate_title")
    ELSE InsertPhase(st, competitor_id, news_item, nw)

TitlePhase(st, competitor_id, news_item, nw) ==
    IF title_exists(st, competitor_id, title_check(news_item))
    THEN Rejected(st, "duplicate_title")
    ELSE InsertPhase(st, competitor_id, news_item, nw)

save_news_item_unchecked(st, competitor_id, news_item, nw) ==
    InsertPhase(st, competitor_id, news_item, nw)

\* the whole function, run without interference from other writers
save_news_item(st, competitor_id, news_item, nw) ==
    LET source_url == sanitize_text(news_item.source_url)
    IN  IF InvalidUrl(source_url) THEN Rejected(st, "invalid_url")
        ELSE IF check_existing_url(st, source_url) THEN Rejected(st, "duplicate_url")
        ELSE TitlePhase(st, competitor_id, news_item, nw)

(***************************************************************************)
(* Saves made one after the other                                          *)
(***************************************************************************)
Returned(r) == [ok |-> r.ok, reason |-> r.reason]

SaveNewsItem(competitor_id, news_item) ==
    /\ task = <<>>
    /\ \E r \in {save_news_item(store, competitor_id, news_item, now)} :
           /\ store' = r.store
           /\ last' = <<Returned(r)>>
    /\ UNCHANGED <<now, days_back, task, outsideStore>>

Tick ==
    /\ now < StartNow + MaxTicks
    /\ now' = now + 1
    /\ UNCHANGED <<store, days_back, last, task, outsideStore>>

(***************************************************************************)
(* One batch of per-competitor tasks.  Each task saves its news_items in   *)
(* turn, every save_news_item call running in a worker thread with a       *)
(* connection of its own; the statements of different threads interleave.  *)
(***************************************************************************)
TaskIds == 1..2

MaxTaskItems == 2

TaskCompetitor(t) == IF t = 1 THEN "c1" ELSE "c2"

BatchItems ==
    { item \in NewsItems :
        /\ item.source_url \in { <<"a">>, <<"b">> }
        /\ item.title \in { <<"t">>, <<"u">> }
        /\ item.date = Day(CUTOFF_YEAR, 90)
        /\ item._search_region = "global" }

ItemLists == UNION { [1..n -> BatchItems] : n \in 1..MaxTaskItems }

CurrentItem(t) == task[t].news_items[task[t].idx]

\* the thread returns and the task's loop takes the result
TaskResumed(t, ok, reason) ==
    [task EXCEPT ![t].saved = IF ok THEN @ + 1 ELSE @,
                 ![t].status = Append(@, reason),
                 ![t].idx = @ + 1,
                 ![t].pc = IF task[t].idx < Len(task[t].news_items) THEN "select_url" ELSE "done"]

\* sanitize and check the URL, then SELECT ... WHERE "sourceUrl" = url
ThreadSelectUrl(t) ==
    LET source_url == sanitize_text(CurrentItem(t).source_url)
    IN  /\ task[t].pc = "select_url"
        /\ task' = IF InvalidUrl(source_url) THEN TaskResumed(t, FALSE, "invalid_url")
                   ELSE IF check_existing_url(store, source_url)
                   THEN TaskResumed(t, FALSE, "duplicate_url")
                   ELSE [task EXCEPT ![t].pc = "select_title"]
        /\ UNCHANGED <<store, now, days_back, last, outsideStore>>

\* SELECT ... WHERE "competitorId" = competitor_id AND "title" = title
ThreadSelectTitle(t) ==
    /\ task[t].pc = "select_title"
    /\ task' = IF title_exists(store, task[t].competitor_id, title_check(CurrentItem(t)))
               THEN TaskResumed(t, FALSE, "duplicate_title")
               ELSE [task EXCEPT ![t].pc = "insert"]
    /\ UNCHANGED <<store, now, days_back, last, outsideStore>>

\* the try block, ending with INSERT and commit
ThreadInsert(t) ==
    LET r == InsertPhase(store, task[t].competitor_id, CurrentItem(t), now)
    IN  /\ task[t].pc = "insert"
        /\ store' = r.store
        /\ task' = TaskResumed(t, r.ok, r.reason)
        /\ UNCHANGED <<now, days_back, last, outsideStore>>

StoreIdle ==
    /\ store = <<>>
    /\ days_back = 0
    /\ last = <<>>
    /\ task = <<>>

GatherIdle ==
    /\ gather_pc = "idle"
    /\ results = <<>>
    /\ merged = <<>>

(***************************************************************************)
(* The result caches: one JSON file per key in a directory per cache.      *)
(* Time is counted in days.                                                *)
(***************************************************************************)
\* 7 * 24 * 3600 seconds
SERPER_CACHE_TTL == 7

\* 24 * 3600 seconds
GEMINI_CACHE_TTL == 1

MaxCacheAge == 8

Caches == {"serper", "gemini"}

Queries == {<<"q">>}

CacheRegions == {"global", "mena"}

SearchTypes == {"news"}

\* competitor names as handed to search_gemini_async
GeminiNames == {"Acme", "ACME (UK)"}

\* re.sub(r'\s*\(.*?\)', '', competitor_name).strip()
SearchName(competitor_name) == IF competitor_name = "ACME (UK)" THEN "ACME" ELSE competitor_name

\* name.lower()
Lower(name) == IF name \in {"Acme", "ACME"} THEN "acme" ELSE name

\* hashlib.md5(raw.encode()).hexdigest(): distinct inputs of the model have distinct digests
Md5(raw) == <<"md5", raw>>

\* f"{query}|{region}|{search_type}"
_serper_cache_key(query, region, search_type) ==
    Md5(query \o <<"|">> \o <<region>> \o <<"|">> \o <<search_type>>)

SerperPath(query, region, search_type) ==
    [dir |-> "serper", key |-> _serper_cache_key(query, region, search_type)]

GeminiPath(name) == [dir |-> "gemini", key |-> Md5(<<Lower(name)>>)]

Paths ==
    {SerperPath(q, r, t) : q \in Queries, r \in CacheRegions, t \in SearchTypes}
        \cup {GeminiPath(SearchName(n)) : n \in GeminiNames}

\* result lists
Payloads == {<<>>, <<"r1">>}

\* what a cache file holds: nothing (no file), a JSON object with
\* cached_at and results, or a truncated write that is not JSON
NoFile == [kind |-> "none", cached_at |-> 0, results |-> <<>>]

PartialFile == [kind |-> "partial", cached_at |-> 0, results |-> <<>>]

JsonFile(clock, payload) == [kind |-> "json", cached_at |-> clock, results |-> payload]

\* Python's None as the value of a get; a list lst is returned as Hit(lst)
None == <<>>

HitValue_falsy(lst) == IF lst = <<>> THEN None ELSE <<lst>>

\* return data.get('results', [])
HitValue(lst) == <<lst>>

Fresh_inclusive(age, ttl) == age <= ttl

\* age < SERPER_CACHE_TTL, time.time() - data.get('cached_at', 0) < GEMINI_CACHE_TTL
Fresh(age, ttl) == age < ttl

ReadFaults == {"none", "open"}

WriteFaults == {"none", "makedirs", "open", "dump"}

\* the body shared by _cache_get and _gemini_cache_get
CacheGet(files, clock, path, ttl, fault) ==
    IF files[path].kind = "none" THEN None
    ELSE IF fault = "open" \/ files[path].kind = "partial" THEN None
    ELSE IF Fresh(clock - files[path].cached_at, ttl) THEN HitValue(files[path].results)
    ELSE None

\* the body shared by _cache_set and _gemini_cache_set; os.makedirs is
\* called before the try block, and open(path, 'w') truncates the file
\* before json.dump writes
CacheSet(files, dirs, clock, path, payload, fault) ==
    IF ~dirs[path.dir] /\ fault = "makedirs"
    THEN [raised |-> TRUE, files |-> files, dirs |-> dirs]
    ELSE [raised |-> FALSE,
          dirs |-> [dirs EXCEPT ![path.dir] = TRUE],
          files |-> CASE fault = "dump" -> [files EXCEPT ![path] = PartialFile]
                      [] fault = "none" -> [files EXCEPT ![path] = JsonFile(clock, payload)]
                      [] OTHER -> files]

_cache_get(files, clock, query, region, search_type, fault) ==
    CacheGet(files, clock, SerperPath(query, region, search_type), SERPER_CACHE_TTL, fault)

_cache_set(files, dirs, clock, query, region, search_type, payload, fault) ==
    CacheSet(files, dirs, clock, SerperPath(query, region, search_type), payload, fault)

_gemini_cache_get(files, clock, name, fault) ==
    CacheGet(files, clock, GeminiPath(name), GEMINI_CACHE_TTL, fault)

_gemini_cache_set(files, dirs, clock, name, payload, fault) ==
    CacheSet(files, dirs, clock, GeminiPath(name), payload, fault)

NoCall == [op |-> "none", path |-> <<>>, raised |-> FALSE, live |-> None, value |-> None]

CacheIdle ==
    /\ cache_dirs = [c \in Caches |-> FALSE]
    /\ cache_files = [p \in Paths |-> NoFile]
    /\ cache_last = NoCall

MaxCalls == 5

\* SERPER_SEMAPHORE = None
NoSemaphore == [made |-> FALSE, value |-> 0]

SerperIdle ==
    /\ SERPER_SEMAPHORE = NoSemaphore
    /\ semaphores_made = 0
    /\ serper_key = TRUE
    /\ call_pc = [i \in 1..MaxCalls |-> "idle"]

NoResponse ==
    [candidate |-> FALSE, grounding_metadata |-> FALSE, lines |-> <<>>, grounding_supports |-> <<>>]

ParseIdle ==
    /\ parse_pc = "idle"
    /\ response = NoResponse
    /\ parsed_articles = <<>>

NoSearch == [adapter |-> "sync", phase |-> "idle", region |-> 0, query |-> 0]

\* native_region=None
NoNativeRegion == [_label |-> "None"]

NoNewsInput == [regions_to_search |-> <<>>, native_region |-> NoNativeRegion]

NewsIdle ==
    /\ news_pc = NoSearch
    /\ news_input = NoNewsInput
    /\ all_results = <<>>
    /\ seen_urls = {}
    /\ search_log = <<>>

SyncIdle ==
    /\ sync_pc = "idle"
    /\ competitor_rows = <<>>
    /\ csv_names = {}
    /\ dry_run = FALSE
    /\ rows_before = <<>>

NoPureCall == [fn |-> "none"]

PureIdle ==
    /\ pure_call = NoPureCall
    /\ pure_result = <<>>

NoRun == [kind |-> "none", job_id |-> FALSE, credentials |-> "all", filter |-> "none", n |-> 0]

RunIdle ==
    /\ run_pc = "idle"
    /\ run_input = NoRun
    /\ tasks = <<>>
    /\ fetch_batch_start = 0
    /\ total_news = 0
    /\ status_log = <<>>
    /\ cooldowns = 0
    /\ store_touched = FALSE

AnalyzeIdle ==
    /\ analyze_pc = "idle"
    /\ engine = "async"
    /\ articles = <<>>
    /\ batch_start = 0
    /\ attempt = 0
    /\ all_news_items = <<>>
    /\ item_batch = <<>>
    /\ batch_log = <<>>

InitSave ==
    /\ now = StartNow
    /\ store = <<>>
    /\ days_back \in DayWindows
    /\ last = <<>>
    /\ task = <<>>
    /\ GatherIdle
    /\ AnalyzeIdle
    /\ CacheIdle
    /\ RunIdle
    /\ SerperIdle
    /\ ParseIdle
    /\ NewsIdle
    /\ SyncIdle
    /\ PureIdle

NextSave ==
    \/ \E c \in Competitors, item \in NewsItems : SaveNewsItem(c, item)
    \/ Tick

SpecSave == InitSave /\ [][NextSave]_vars

(***************************************************************************)
(* The pipeline run twice for one competitor, the providers returning the  *)
(* same articles and the model the same event for each article it is       *)
(* handed (the event's source_url being the article's link).               *)
(***************************************************************************)
MaxRerunItems == 2

RerunItems ==
    { item \in NewsItems :
        /\ item.source_url \in { <<"a">>, <<"a", "eacute">>, <<"b">> }
        /\ item.title \in { <<"t">>, <<"u">> }
        /\ item.date \in { Day(LENIENT_YEAR, 200), Day(CUTOFF_YEAR, 90) } }

RECURSIVE NewArticles(_, _)
\* new_articles = [a for a in articles if a.get('link', '') not in existing_urls]
NewArticles(events, existing_urls) ==
    IF events = <<>> THEN <<>>
    ELSE (IF Head(events).source_url \in existing_urls THEN <<>> ELSE <<Head(events)>>)
            \o NewArticles(Tail(events), existing_urls)

\* fetch_news_for_competitor_async up to the loop over news_items, with the
\* existing_urls that _fetch_all_news_async_inner has read from the store
RerunBegin ==
    /\ task.pc = "begin"
    /\ LET pending == NewArticles(task.events, {store[i].sourceUrl : i \in DOMAIN store})
       IN  task' = [task EXCEPT !.pending = pending,
                                !.saved = 0,
                                !.pc = IF pending = <<>> THEN "end" ELSE "saving"]
    /\ UNCHANGED <<store, now, days_back, last, outsideStore>>

\* one pass of the loop over news_items
RerunSave ==
    /\ task.pc = "saving"
    /\ LET r == save_news_item(store, task.competitor_id, Head(task.pending), now)
       IN  /\ store' = r.store
           /\ task' = [task EXCEPT !.pending = Tail(@),
                                    !.saved = IF r.ok THEN @ + 1 ELSE @,
                                    !.submitted = @ + 1,
                                    !.pc = IF Tail(task.pending) = <<>> THEN "end" ELSE "saving"]
    /\ UNCHANGED <<now, days_back, last, outsideStore>>

\* the first run has returned; the pipeline is run again
RerunAgain ==
    /\ task.pc = "end"
    /\ task.run = 1
    /\ task' = [task EXCEPT !.run = 2, !.pc = "begin", !.first_store = store, !.saved = 0,
                             !.submitted = 0]
    /\ UNCHANGED <<store, now, days_back, last, outsideStore>>

RerunTick ==
    /\ task.pc \in {"begin", "saving", "end"}
    /\ Tick

InitRerun ==
    /\ now = StartNow
    /\ store = <<>>
    /\ days_back = 0
    /\ last = <<>>
    /\ \E events \in UNION { [1..n -> RerunItems] : n \in 1..MaxRerunItems } :
          task = [competitor_id |-> "c1", events |-> events, run |-> 1, pc |-> "begin",
                  pending |-> <<>>, saved |-> 0, submitted |-> 0, first_store |-> <<>>]
    /\ GatherIdle
    /\ AnalyzeIdle
    /\ CacheIdle
    /\ RunIdle
    /\ SerperIdle
    /\ ParseIdle
    /\ NewsIdle
    /\ SyncIdle
    /\ PureIdle

NextRerun ==
    \/ RerunBegin
    \/ RerunSave
    \/ RerunAgain
    \/ RerunTick

SpecRerun == InitRerun /\ [][NextRerun]_vars

\* saves of items that differ in their threat level
InitThreat ==
    /\ now = StartNow
    /\ store = <<>>
    /\ days_back = 0
    /\ last = <<>>
    /\ task = <<>>
    /\ GatherIdle
    /\ AnalyzeIdle
    /\ CacheIdle
    /\ RunIdle
    /\ SerperIdle
    /\ ParseIdle
    /\ NewsIdle
    /\ SyncIdle
    /\ PureIdle

NextThreat ==
    \/ \E c \in Competitors, item \in ThreatItems : SaveNewsItem(c, item)
    \/ Tick

SpecThreat == InitThreat /\ [][NextThreat]_vars

InitBatch ==
    /\ store = <<>>
    /\ now = StartNow
    /\ days_back = 0
    /\ last = <<>>
    /\ \E lists \in [TaskIds -> ItemLists] :
          task = [t \in TaskIds |->
                    [competitor_id |-> TaskCompetitor(t), news_items |-> lists[t],
                     idx |-> 1, pc |-> "select_url", saved |-> 0, status |-> <<>>]]
    /\ GatherIdle
    /\ AnalyzeIdle
    /\ CacheIdle
    /\ RunIdle
    /\ SerperIdle
    /\ ParseIdle
    /\ NewsIdle
    /\ SyncIdle
    /\ PureIdle

NextBatch ==
    \E t \in TaskIds :
        \/ ThreadSelectUrl(t)
        \/ ThreadSelectTitle(t)
        \/ ThreadInsert(t)

SpecBatch == InitBatch /\ [][NextBatch]_vars

\* the store raises an error in a thread's statement: inside the try block
\* (the INSERT and the commit) the error is caught, the connection closed
\* and (False, str(e)) returned; in get_db_connection and in the two SELECTs,
\* which come before the try, it leaves save_news_item and, through
\* asyncio.to_thread, the task's loop over news_items
StoreFault(t) ==
    /\ task[t].pc \in {"select_url", "select_title", "insert"}
    /\ task' = IF task[t].pc = "insert"
               THEN TaskResumed(t, FALSE, "error")
               ELSE [task EXCEPT ![t].pc = "raised"]
    /\ UNCHANGED <<store, now, days_back, last, outsideStore>>

NextFault ==
    \E t \in TaskIds :
        \/ ThreadSelectUrl(t)
        \/ ThreadSelectTitle(t)
        \/ ThreadInsert(t)
        \/ StoreFault(t)

\* a batch of tasks saving their items while the store may raise errors
SpecFault == InitBatch /\ [][NextFault]_vars

(***************************************************************************)
(* gather_all_articles: the three adapters run under asyncio.gather with   *)
(* return_exceptions=True, then their lists are merged.                    *)
(***************************************************************************)
Links == {"l1", "l2", "l3"}

SerperRegions == {"global", "mena"}

MaxAdapterResults == 2

Article(link, region, snippet) ==
    [link |-> link, _search_region |-> region, snippet |-> snippet]

\* the lists of at most MaxAdapterResults articles with distinct links out of S
DistinctLists(S) ==
    UNION { { a \in [1..n -> S] : \A i, j \in 1..n : i # j => a[i].link # a[j].link } :
            n \in 0..MaxAdapterResults }

\* search_news_async returns articles with distinct, non-empty links, labelled with a region
SerperLists == DistinctLists({Article(l, r, "serper") : l \in Links, r \in SerperRegions})

\* _parse_gemini_grounding returns articles with distinct links, labelled gemini_search
GeminiLists == DistinctLists({Article(l, "gemini_search", "gemini") : l \in Links})

DeepLists == DistinctLists({Article(l, "gemini_search", "deep") : l \in Links})

Raised == [raised |-> TRUE, value |-> <<>>]

ReturnedList(list) == [raised |-> FALSE, value |-> list]

\* an exception among the results counts as an empty list
ResultOrEmpty(outcome) == IF outcome.raised THEN <<>> ELSE outcome.value

\* gemini_results after the deep results have been appended to it
MergeDeep(gemini_results, deep_results) ==
    LET deep_urls == {gemini_results[i].link : i \in DOMAIN gemini_results}
    IN  gemini_results \o SelectSeq(deep_results, LAMBDA a : a.link \notin deep_urls)

MergeOrder_gemini_first(serper_results, gemini_results) == gemini_results \o serper_results

\* serper_results + gemini_results
MergeOrder(serper_results, gemini_results) == serper_results \o gemini_results

RECURSIVE DedupByLink(_, _)
DedupByLink(list, seen) ==
    IF list = <<>> THEN <<>>
    ELSE LET a == Head(list)
         IN  IF a.link # "" /\ a.link \notin seen
             THEN <<a>> \o DedupByLink(Tail(list), seen \cup {a.link})
             ELSE DedupByLink(Tail(list), seen)

MergeResults_abort_on_error(serper, gemini, deep) ==
    IF serper.raised \/ gemini.raised \/ deep.raised THEN <<>>
    ELSE DedupByLink(MergeOrder(serper.value, MergeDeep(gemini.value, deep.value)), {})

MergeResults(serper, gemini, deep) ==
    LET serper_results == ResultOrEmpty(serper)
        gemini_results == MergeDeep(ResultOrEmpty(gemini), ResultOrEmpty(deep))
    IN  DedupByLink(MergeOrder(serper_results, gemini_results), {})

\* the three adapters have ended, each with a list or with an exception;
\* without a website there is no deep task and deep_results is []
AdaptersEnd ==
    /\ gather_pc = "idle"
    /\ \E serper \in {Raised} \cup {ReturnedList(l) : l \in SerperLists},
          gemini \in {Raised} \cup {ReturnedList(l) : l \in GeminiLists},
          deep \in {Raised} \cup {ReturnedList(l) : l \in DeepLists},
          website \in BOOLEAN :
          /\ ~website => deep = ReturnedList(<<>>)
          /\ results' = [serper |-> serper, gemini |-> gemini, deep |-> deep,
                         website |-> website]
    /\ gather_pc' = "gathered"
    /\ UNCHANGED <<merged, outsideGather>>

GatherMerge ==
    /\ gather_pc = "gathered"
    /\ merged' = MergeResults(results.serper, results.gemini, results.deep)
    /\ gather_pc' = "merged"
    /\ UNCHANGED <<results, outsideGather>>

InitGather ==
    /\ now = StartNow
    /\ StoreIdle
    /\ GatherIdle
    /\ AnalyzeIdle
    /\ CacheIdle
    /\ RunIdle
    /\ SerperIdle
    /\ ParseIdle
    /\ NewsIdle
    /\ SyncIdle
    /\ PureIdle

NextGather == AdaptersEnd \/ GatherMerge

SpecGather == InitGather /\ [][NextGather]_vars

(***************************************************************************)
(* The extraction engine, async and sync.  One step is one pass of the     *)
(* retry loop: the model call and what the code does with its outcome.     *)
(***************************************************************************)
BATCH_SIZE == 12

\* range(3) of the retry loop
MAX_ATTEMPTS == 3

MaxArticles == 13

MaxResponseItems == 2

\* the value of item.get('_search_region') for an item without the key
NoRegion == "None"

\* an article list of n articles with links 1..n
ArticleList(n, labels) ==
    [i \in 1..n |->
        [link |-> i,
         _search_region |->
            CASE labels = "serper" -> "global"
              [] labels = "gemini" -> "gemini_search"
              [] OTHER -> IF i % 2 = 1 THEN "global" ELSE "gemini_search"]]

Batch_one_more(list, start) == SubSeq(list, start + 1, Min(Len(list), start + BATCH_SIZE + 1))

\* articles[batch_start:batch_start + BATCH_SIZE]
Batch(list, start) == SubSeq(list, start + 1, Min(Len(list), start + BATCH_SIZE))

\* (batch_start // BATCH_SIZE) + 1
BatchNum(start) == (start \div BATCH_SIZE) + 1

\* (len(articles) + BATCH_SIZE - 1) // BATCH_SIZE
TotalBatches(list) == (Len(list) + BATCH_SIZE - 1) \div BATCH_SIZE

\* the source URLs the model may report for a batch: one of the batch's
\* links, a link of another batch, a URL of no article
ReportedUrls(list, start) ==
    {Batch(list, start)[1].link, Batch(list, start)[Len(Batch(list, start))].link, 0}
        \cup {list[i].link : i \in {j \in DOMAIN list : j = start + BATCH_SIZE + 1 \/ j = start}}

\* the lists of news_items a parsed response may hold; the model's items have no _search_region
ResponseItems(list, start) ==
    UNION { [1..n -> {[source_url |-> u, _search_region |-> NoRegion] : u \in ReportedUrls(list, start)}] :
            n \in 0..MaxResponseItems }

\* what a model call leads to: an exception of the kinds the sync engine
\* retries (anthropic.APIError, timeouts, connection errors), any other
\* exception, a response no repair can parse, the no_relevant_news object,
\* or an object with news_items
Outcomes(list, start) ==
    {[kind |-> k, items |-> <<>>] : k \in {"api_error", "other_error", "unparseable", "no_relevant_news"}}
        \cup {[kind |-> "news_items", items |-> it] : it \in ResponseItems(list, start)}

\* url_map = {a.get('link', ''): a.get('_search_region') for a in batch}: the last article of a link wins
UrlMap(batch) ==
    [u \in {batch[i].link : i \in DOMAIN batch} |->
        batch[CHOOSE i \in DOMAIN batch :
                batch[i].link = u /\ \A j \in DOMAIN batch : batch[j].link = u => j <= i]._search_region]

\* the async engine's loop over items: item['_search_region'] = url_map[src]
Reattach(items, batch) ==
    [k \in DOMAIN items |->
        IF items[k].source_url \in DOMAIN UrlMap(batch)
        THEN [items[k] EXCEPT !._search_region = UrlMap(batch)[items[k].source_url]]
        ELSE items[k]]

\* the sync engine extends all_news_items with the items as they are
NoReattach(items, batch) == items

Collected(eng, items, batch) ==
    IF eng = "async" THEN Reattach(items, batch) ELSE NoReattach(items, batch)

RetryLoopGoesOn_one_more(a) == a + 1 <= MAX_ATTEMPTS

\* whether the retry loop has another pass after pass a
RetryLoopGoesOn(a) == a + 1 < MAX_ATTEMPTS

\* whether the code, after this outcome in pass a, goes to the next pass of the retry loop
Retries(eng, kind, a) ==
    CASE kind = "unparseable" -> a < MAX_ATTEMPTS - 1 /\ RetryLoopGoesOn(a)
      [] kind = "api_error" -> RetryLoopGoesOn(a)
      [] kind = "other_error" -> eng = "async" /\ RetryLoopGoesOn(a)
      [] OTHER -> FALSE

Failed(kind) == kind \in {"api_error", "other_error", "unparseable"}

Logged(log, b, kind, batch) ==
    LET old == IF b \in DOMAIN log THEN log[b] ELSE [calls |-> 0, failed |-> 0, sentinels |-> 0]
        new == [calls |-> old.calls + 1, failed |-> old.failed + (IF Failed(kind) THEN 1 ELSE 0),
                sentinels |-> old.sentinels + (IF kind = "no_relevant_news" THEN 1 ELSE 0),
                sent |-> [i \in DOMAIN batch |-> batch[i].link]]
    IN  IF b \in DOMAIN log THEN [log EXCEPT ![b] = new] ELSE Append(log, new)

\* analyze is called with a non-empty article list (an empty one returns None at once)
AnalyzeStart ==
    /\ analyze_pc = "idle"
    /\ \E eng \in {"async", "sync"}, n \in 1..MaxArticles, labels \in {"serper", "gemini", "mixed"} :
          /\ engine' = eng
          /\ articles' = ArticleList(n, labels)
    /\ analyze_pc' = "call"
    /\ batch_start' = 0
    /\ attempt' = 0
    /\ all_news_items' = <<>>
    /\ item_batch' = <<>>
    /\ batch_log' = <<>>
    /\ UNCHANGED outsideAnalyze

\* one pass of the retry loop of the batch at batch_start
AnalyzePass(eng, outcome) ==
    LET batch == Batch(articles, batch_start)
        b == BatchNum(batch_start)
        items == IF outcome.kind = "news_items" THEN Collected(eng, outcome.items, batch) ELSE <<>>
    IN  /\ batch_log' = Logged(batch_log, b, outcome.kind, batch)
        /\ all_news_items' = all_news_items \o items
        /\ item_batch' = item_batch \o [k \in DOMAIN items |-> b]
        /\ IF Retries(eng, outcome.kind, attempt)
           THEN /\ attempt' = attempt + 1
                /\ UNCHANGED <<batch_start, analyze_pc>>
           ELSE /\ attempt' = 0
                /\ batch_start' = batch_start + BATCH_SIZE
                /\ analyze_pc' = IF batch_start + BATCH_SIZE < Len(articles) THEN "call" ELSE "returned"
        /\ UNCHANGED <<engine, articles, outsideAnalyze>>

\* analyze_with_claude_async: a pass of its retry loop
AnalyzeAsyncPass ==
    /\ analyze_pc = "call"
    /\ engine = "async"
    /\ \E outcome \in Outcomes(articles, batch_start) : AnalyzePass("async", outcome)

\* analyze_with_claude: a pass of its retry loop
AnalyzeSyncPass ==
    /\ analyze_pc = "call"
    /\ engine = "sync"
    /\ \E outcome \in Outcomes(articles, batch_start) : AnalyzePass("sync", outcome)

InitAnalyze ==
    /\ now = StartNow
    /\ StoreIdle
    /\ GatherIdle
    /\ AnalyzeIdle
    /\ CacheIdle
    /\ RunIdle
    /\ SerperIdle
    /\ ParseIdle
    /\ NewsIdle
    /\ SyncIdle
    /\ PureIdle

NextAnalyze == AnalyzeStart \/ AnalyzeAsyncPass \/ AnalyzeSyncPass

SpecAnalyze == InitAnalyze /\ [][NextAnalyze]_vars

(***************************************************************************)
(* A competitor's run after the search: the extraction engine, then the    *)
(* loop of fetch_news_for_competitor(_async) that hands the news_items to  *)
(* save_news_item.                                                         *)
(***************************************************************************)
\* the event the model wrote for a source URL, as save_news_item reads it
EventFor(item) ==
    [source_url |-> IF item.source_url = 0 THEN <<"b">> ELSE <<"a">>,
     title |-> IF item.source_url = 0 THEN <<"u">> ELSE <<"t">>,
     date |-> Day(CUTOFF_YEAR, 90),
     _search_region |-> IF item._search_region = "gemini_search" THEN "gemini_search" ELSE "global",
     threat_level |-> NoThreat]

RECURSIVE SaveAll(_, _, _, _)
\* for item in news_items: success, status = save_news_item(id, item); saved += success
SaveAll(st, competitor_id, news_items, nw) ==
    IF news_items = <<>> THEN [store |-> st, saved |-> 0]
    ELSE LET r == save_news_item(st, competitor_id, EventFor(Head(news_items)), nw)
             rest == SaveAll(r.store, competitor_id, Tail(news_items), nw)
         IN  [store |-> rest.store, saved |-> rest.saved + (IF r.ok THEN 1 ELSE 0)]

NewsItemsOf_with_fallback(list, collected) ==
    IF collected = <<>>
    THEN <<[source_url |-> list[1].link, _search_region |-> list[1]._search_region]>>
    ELSE collected

\* the engine returns {'news_items': all_news_items} or, with none,
\* {'no_relevant_news': True}, on which the caller returns 0; otherwise
\* news_items = analysis.get('news_items', [])
NewsItemsOf(list, collected) == collected

\* the engine has returned: the caller's loop over news_items
CompetitorSave ==
    /\ analyze_pc = "returned"
    /\ task = <<>>
    /\ LET news_items == NewsItemsOf(articles, all_news_items)
           r == SaveAll(store, "c1", news_items, now)
       IN  /\ store' = r.store
           /\ task' = [pc |-> "returned", submitted |-> news_items, saved |-> r.saved]
    /\ UNCHANGED <<now, days_back, last, outsideStore>>

NextCompetitor == AnalyzeStart \/ AnalyzeAsyncPass \/ AnalyzeSyncPass \/ CompetitorSave

SpecCompetitor == InitAnalyze /\ [][NextCompetitor]_vars

(***************************************************************************)
(* The adapters' use of the caches, and the cache calls themselves         *)
(***************************************************************************)
\* a list as a returned value
Returns(lst) == <<lst>>

\* what the live call of an adapter leads to: the API key is not set, the
\* request fails, the provider reports exhausted credits, or a result list
ApiOutcomes ==
    {[kind |-> k, results |-> <<>>] : k \in {"no_key", "error", "credits"}}
        \cup {[kind |-> "ok", results |-> r] : r \in Payloads}

\* search_serper_async: _cache_set is called inside its try block, whose
\* except Exception returns [].  live is the list the live call gave, if
\* the call was made and gave one; cache_read and requested tell whether
\* the call read the cache and whether it sent a live request.
search_serper_async(files, dirs, clock, query, region, api, rfault, wfault) ==
    LET cached == _cache_get(files, clock, query, region, "news", rfault)
        w == _cache_set(files, dirs, clock, query, region, "news", api.results, wfault)
        early == [raised |-> FALSE, live |-> None, value |-> None, files |-> files, dirs |-> dirs,
                  cache_read |-> TRUE, requested |-> FALSE]
        late == [raised |-> FALSE, live |-> Returns(api.results), value |-> None,
                 files |-> w.files, dirs |-> w.dirs, cache_read |-> TRUE, requested |-> TRUE]
    IN  IF cached # None THEN [early EXCEPT !.value = cached]
        ELSE IF api.kind # "ok"
        THEN [early EXCEPT !.value = Returns(<<>>), !.requested = (api.kind # "no_key")]
        ELSE IF w.raised THEN [late EXCEPT !.value = Returns(<<>>)]
        ELSE [late EXCEPT !.value = Returns(api.results)]

search_serper_caches_failure(files, dirs, clock, query, region, api, rfault, wfault) ==
    LET cached == _cache_get(files, clock, query, region, "news", rfault)
        w == _cache_set(files, dirs, clock, query, region, "news", api.results, wfault)
        early == [raised |-> FALSE, live |-> None, value |-> None, files |-> files, dirs |-> dirs,
                  cache_read |-> TRUE, requested |-> FALSE]
        late == [raised |-> FALSE, live |-> Returns(api.results), value |-> None,
                 files |-> w.files, dirs |-> w.dirs, cache_read |-> TRUE, requested |-> TRUE]
    IN  IF cached # None THEN [early EXCEPT !.value = cached]
        ELSE IF api.kind = "no_key" THEN [early EXCEPT !.value = Returns(<<>>)]
        ELSE IF api.kind # "ok"
        THEN [late EXCEPT !.live = None, !.value = Returns(<<>>)]
        ELSE IF w.raised THEN [late EXCEPT !.raised = TRUE, !.value = None]
        ELSE [late EXCEPT !.value = Returns(api.results)]

\* search_serper: its try block catches requests.exceptions.RequestException only
search_serper(files, dirs, clock, query, region, api, rfault, wfault) ==
    LET cached == _cache_get(files, clock, query, region, "news", rfault)
        w == _cache_set(files, dirs, clock, query, region, "news", api.results, wfault)
        early == [raised |-> FALSE, live |-> None, value |-> None, files |-> files, dirs |-> dirs,
                  cache_read |-> TRUE, requested |-> FALSE]
        late == [raised |-> FALSE, live |-> Returns(api.results), value |-> None,
                 files |-> w.files, dirs |-> w.dirs, cache_read |-> TRUE, requested |-> TRUE]
    IN  IF cached # None THEN [early EXCEPT !.value = cached]
        ELSE IF api.kind # "ok"
        THEN [early EXCEPT !.value = Returns(<<>>), !.requested = (api.kind # "no_key")]
        ELSE IF w.raised THEN [late EXCEPT !.raised = TRUE, !.value = None]
        ELSE [late EXCEPT !.value = Returns(api.results)]

\* search_gemini_async: the key check comes before the cache lookup;
\* _gemini_cache_set is called inside its try block, whose except Exception returns []
search_gemini_async(files, dirs, clock, competitor_name, api, rfault, wfault) ==
    LET search_name == SearchName(competitor_name)
        cached == _gemini_cache_get(files, clock, search_name, rfault)
        w == _gemini_cache_set(files, dirs, clock, search_name, api.results, wfault)
        early == [raised |-> FALSE, live |-> None, value |-> None, files |-> files, dirs |-> dirs,
                  cache_read |-> TRUE, requested |-> FALSE]
        late == [raised |-> FALSE, live |-> Returns(api.results), value |-> None,
                 files |-> w.files, dirs |-> w.dirs, cache_read |-> TRUE, requested |-> TRUE]
    IN  IF api.kind = "no_key" THEN [early EXCEPT !.value = Returns(<<>>), !.cache_read = FALSE]
        ELSE IF cached # None THEN [early EXCEPT !.value = cached]
        ELSE IF api.kind # "ok"
        THEN [early EXCEPT !.value = Returns(<<>>), !.requested = (api.kind # "no_key")]
        ELSE IF w.raised THEN [late EXCEPT !.value = Returns(<<>>)]
        ELSE [late EXCEPT !.value = Returns(api.results)]

Websites == {"", "https://acme.com/"}

\* search_gemini_deep_async: no cache lookup and no cache write; without a
\* key or a website it returns [] at once, any exception of the live call gives []
search_gemini_deep_async(files, dirs, competitor_name, website, api) ==
    LET early == [raised |-> FALSE, live |-> None, value |-> Returns(<<>>), files |-> files, dirs |-> dirs,
                  cache_read |-> FALSE, requested |-> FALSE]
    IN  IF api.kind = "no_key" \/ website = "" THEN early
        ELSE IF api.kind # "ok" THEN [early EXCEPT !.requested = TRUE]
        ELSE [early EXCEPT !.requested = TRUE, !.live = Returns(api.results),
                           !.value = Returns(api.results)]

\* The two caches share no directory and no file, so what one holds has no
\* effect on the other: a behaviour works on one of them, the other stays
\* as it was at the start.
OnlyCache(c) == \A other \in Caches \ {c} : ~cache_dirs[other]

\* an adapter call has run: its effect on the cache and what its caller got
AdapterCalled(op, path, out) ==
    /\ cache_files' = out.files
    /\ cache_dirs' = out.dirs
    /\ cache_last' = [op |-> op, path |-> path, raised |-> out.raised,
                      live |-> out.live, value |-> out.value]
    /\ UNCHANGED <<now, outsideCache>>

SearchSerperAsync ==
    /\ OnlyCache("serper")
    /\ \E q \in Queries, r \in CacheRegions, api \in ApiOutcomes, rf \in ReadFaults, wf \in WriteFaults :
          AdapterCalled("search_serper_async", SerperPath(q, r, "news"),
                        search_serper_async(cache_files, cache_dirs, now, q, r, api, rf, wf))

SearchSerper ==
    /\ OnlyCache("serper")
    /\ \E q \in Queries, r \in CacheRegions, api \in ApiOutcomes, rf \in ReadFaults, wf \in WriteFaults :
          AdapterCalled("search_serper", SerperPath(q, r, "news"),
                        search_serper(cache_files, cache_dirs, now, q, r, api, rf, wf))

SearchGeminiAsync ==
    /\ OnlyCache("gemini")
    /\ \E n \in GeminiNames, api \in ApiOutcomes, rf \in ReadFaults, wf \in WriteFaults :
          AdapterCalled("search_gemini_async", GeminiPath(SearchName(n)),
                        search_gemini_async(cache_files, cache_dirs, now, n, api, rf, wf))

SearchGeminiDeepAsync ==
    /\ OnlyCache("gemini")
    /\ \E n \in GeminiNames, site \in Websites, api \in ApiOutcomes :
          AdapterCalled("search_gemini_deep_async", GeminiPath(SearchName(n)),
                        search_gemini_deep_async(cache_files, cache_dirs, n, site, api))

\* a get has run
GetCalled(path, got) ==
    /\ cache_last' = [op |-> "get", path |-> path, raised |-> FALSE, live |-> None, value |-> got]
    /\ UNCHANGED <<now, cache_files, cache_dirs, outsideCache>>

\* a set has run
SetCalled(path, w) ==
    /\ cache_files' = w.files
    /\ cache_dirs' = w.dirs
    /\ cache_last' = [op |-> "set", path |-> path, raised |-> w.raised, live |-> None, value |-> None]
    /\ UNCHANGED <<now, outsideCache>>

SerperCacheGet ==
    /\ OnlyCache("serper")
    /\ \E q \in Queries, r \in CacheRegions, t \in SearchTypes, rf \in ReadFaults :
          GetCalled(SerperPath(q, r, t), _cache_get(cache_files, now, q, r, t, rf))

SerperCacheSet ==
    /\ OnlyCache("serper")
    /\ \E q \in Queries, r \in CacheRegions, t \in SearchTypes, v \in Payloads, wf \in WriteFaults :
          SetCalled(SerperPath(q, r, t), _cache_set(cache_files, cache_dirs, now, q, r, t, v, wf))

GeminiCacheGet ==
    /\ OnlyCache("gemini")
    /\ \E n \in GeminiNames, rf \in ReadFaults :
          GetCalled(GeminiPath(SearchName(n)), _gemini_cache_get(cache_files, now, SearchName(n), rf))

GeminiCacheSet ==
    /\ OnlyCache("gemini")
    /\ \E n \in GeminiNames, v \in Payloads, wf \in WriteFaults :
          SetCalled(GeminiPath(SearchName(n)),
                    _gemini_cache_set(cache_files, cache_dirs, now, SearchName(n), v, wf))

\* time.time() moves on
CacheTick ==
    /\ now < StartNow + MaxCacheAge
    /\ now' = now + 1
    /\ UNCHANGED <<cacheVars, outsideCache>>

InitCache ==
    /\ now = StartNow
    /\ StoreIdle
    /\ GatherIdle
    /\ AnalyzeIdle
    /\ CacheIdle
    /\ RunIdle
    /\ SerperIdle
    /\ ParseIdle
    /\ NewsIdle
    /\ SyncIdle
    /\ PureIdle

NextCache ==
    \/ SearchSerperAsync
    \/ SearchSerper
    \/ SearchGeminiAsync
    \/ SearchGeminiDeepAsync
    \/ SerperCacheGet
    \/ SerperCacheSet
    \/ GeminiCacheGet
    \/ GeminiCacheSet
    \/ CacheTick

SpecCache == InitCache /\ [][NextCache]_vars

\* the adapter calls that use a cache, each with the key it reads and writes
CachingCalls ==
    {[fn |-> f, query |-> q, region |-> r] :
        f \in {"search_serper_async", "search_serper"}, q \in Queries, r \in CacheRegions}
        \cup {[fn |-> "search_gemini_async", name |-> n] : n \in GeminiNames}

CachingPath(c) ==
    IF c.fn = "search_gemini_async" THEN GeminiPath(SearchName(c.name))
    ELSE SerperPath(c.query, c.region, "news")

\* the call c made with these files at this time; its reads meet no I/O fault
CachingCall(c, files, dirs, clock, api, wfault) ==
    CASE c.fn = "search_serper_async" ->
            search_serper_async(files, dirs, clock, c.query, c.region, api, "none", wfault)
      [] c.fn = "search_serper" ->
            search_serper(files, dirs, clock, c.query, c.region, api, "none", wfault)
      [] OTHER -> search_gemini_async(files, dirs, clock, c.name, api, "none", wfault)

(***************************************************************************)
(* A pipeline run: the refresh run (_fetch_all_news_async_inner, started   *)
(* by fetch_all_news or by the worker's run_refresh_logic) and the         *)
(* onboarding run (run_onboarding, started by run_onboarding_logic).       *)
(***************************************************************************)
\* BATCH_SIZE of _fetch_all_news_async_inner
FETCH_BATCH_SIZE == 5

MaxCompetitors == 6

RefreshKinds == {"refresh_cli", "refresh_http"}

RunKinds == RefreshKinds \cup {"onboarding_http"}

\* which keys the environment holds: all of them, all but ANTHROPIC_API_KEY,
\* or all but the keys of the search providers
Credentials == {"all", "no_llm", "no_search"}

\* competitor_name: not given, given and matching some competitor, given and matching none
Filters == {"none", "match", "no_match"}

\* n is the number of competitors the run works on (after the filter and the limit)
RunInputs ==
    {r \in [kind : RunKinds, job_id : BOOLEAN, credentials : Credentials, filter : Filters,
            n : 0..MaxCompetitors] :
        /\ r.kind = "refresh_cli" => ~r.job_id
        /\ r.kind = "onboarding_http" => r.credentials = "all" /\ r.filter = "none"
        /\ r.filter = "match" => r.n >= 1
        /\ r.filter = "no_match" => r.n = 0}

\* the number of items a task that returns has saved
TaskResult(c) == c % 3

\* int((processed / total) * 100) if total > 0, else 0
percent_complete(processed, total) == IF total > 0 THEN (processed * 100) \div total ELSE 0

Status(status, processed, total, error) ==
    [status |-> status, processed |-> processed, total |-> total,
     percent_complete |-> percent_complete(processed, total), error |-> error]

\* write_status(status, ..., processed=processed, total=total, error=error):
\* the status record is overwritten; processed and total default to 0
write_status(log, status, processed, total, error) ==
    Append(log, Status(status, processed, total, error))

\* write_status(status, ..., job_id=job_id) as the worker and the onboarding
\* agent call it: the status of the job is set
write_job_status(log, status, processed, total, error) ==
    Append(log, Status(status, processed, total, error))

\* the competitors of the batch that starts at start
BatchOfRun(start, n) == (start + 1)..Min(start + FETCH_BATCH_SIZE, n)

Ended(t) == t \in {"returned", "raised"}

\* an exception leaves the run's function: fetch_all_news lets it through;
\* the worker's wrappers catch it and, given a job id, write an error status
\* with the exception's message
RunRaises(message) ==
    IF run_input.kind = "refresh_cli"
    THEN /\ run_pc' = "raised"
         /\ UNCHANGED status_log
    ELSE /\ run_pc' = "returned"
         /\ status_log' = IF run_input.job_id
                          THEN write_job_status(status_log, "error", 0, 0, message)
                          ELSE status_log

\* a run is started
RunStart ==
    /\ run_pc = "idle"
    /\ \E r \in RunInputs : run_input' = r /\ tasks' = [c \in 1..r.n |-> "waiting"]
    /\ run_pc' = "startup"
    /\ UNCHANGED <<fetch_batch_start, total_news, status_log, cooldowns, store_touched, outsideRun>>

NoAnthropicKey_any_key(r) == r.credentials # "all"

\* if not ANTHROPIC_API_KEY
NoAnthropicKey(r) == r.credentials = "no_llm"

\* _fetch_all_news_async_inner: the check of ANTHROPIC_API_KEY
RefreshStartup ==
    /\ run_pc = "startup"
    /\ run_input.kind \in RefreshKinds
    /\ IF NoAnthropicKey(run_input)
       THEN /\ status_log' = write_status(status_log, "error", 0, 0, "ANTHROPIC_API_KEY not found")
            /\ run_pc' = "returned"
       ELSE /\ run_pc' = "prepare"
            /\ UNCHANGED status_log
    /\ UNCHANGED <<run_input, tasks, fetch_batch_start, total_news, cooldowns, store_touched, outsideRun>>

\* _fetch_all_news_async_inner from clean_start to the first write_status:
\* the store is read (and cleared on clean_start), which may fail; the
\* competitor_name filter; the first 'running' status; with no competitor
\* the loop has no pass and 'completed' follows at once
RefreshPrepare ==
    /\ run_pc = "prepare"
    /\ store_touched' = TRUE
    /\ \E store_ok \in BOOLEAN :
          IF ~store_ok THEN RunRaises("store error")
          ELSE IF run_input.filter = "no_match"
          THEN run_pc' = "returned" /\ UNCHANGED status_log
          ELSE IF run_input.n = 0
          THEN /\ run_pc' = "returned"
               /\ status_log' = write_status(write_status(status_log, "running", 0, run_input.n, ""),
                                              "completed", run_input.n, run_input.n, "")
          ELSE /\ run_pc' = "batch"
               /\ status_log' = write_status(status_log, "running", 0, run_input.n, "")
    /\ UNCHANGED <<run_input, tasks, fetch_batch_start, total_news, cooldowns, outsideRun>>

\* the head of a pass of the competitor loop: a status, then the tasks of
\* the batch are handed to asyncio.gather
BatchStart ==
    /\ run_pc = "batch"
    /\ status_log' = write_status(status_log, "running", fetch_batch_start, run_input.n, "")
    /\ tasks' = [c \in DOMAIN tasks |->
                    IF c \in BatchOfRun(fetch_batch_start, run_input.n) THEN "running" ELSE tasks[c]]
    /\ run_pc' = "gathering"
    /\ UNCHANGED <<run_input, fetch_batch_start, total_news, cooldowns, store_touched, outsideRun>>

\* fetch_news_for_competitor_async of one competitor ends, with its result or with an exception
TaskEnd ==
    /\ run_pc = "gathering"
    /\ \E c \in DOMAIN tasks, outcome \in {"returned", "raised"} :
          /\ tasks[c] = "running"
          /\ tasks' = [tasks EXCEPT ![c] = outcome]
    /\ UNCHANGED <<run_pc, run_input, fetch_batch_start, total_news, status_log, cooldowns,
                   store_touched, outsideRun>>

RECURSIVE WriteRunning_from_zero(_, _, _, _, _)
WriteRunning_from_zero(log, start, i, k, total) ==
    IF i = k THEN log
    ELSE WriteRunning_from_zero(write_status(log, "running", i + 1, total, ""), start, i + 1, k, total)

RECURSIVE WriteRunning(_, _, _, _, _)
\* one 'running' status per competitor of the batch, in the order of the
\* batch, from the i-th on: idx = batch_start + i + 1 is its processed count
WriteRunning(log, start, i, k, total) ==
    IF i = k THEN log
    ELSE WriteRunning(write_status(log, "running", start + i + 1, total, ""), start, i + 1, k, total)

RECURSIVE SumResults(_, _)
\* total_news += result, an exception counting as 0
SumResults(ts, batch) ==
    IF batch = {} THEN 0
    ELSE LET c == CHOOSE x \in batch : TRUE
         IN  (IF ts[c] = "returned" THEN TaskResult(c) ELSE 0) + SumResults(ts, batch \ {c})

CooldownFollows_always(start, n) == start + FETCH_BATCH_SIZE <= n

\* if batch_start + BATCH_SIZE < total_competitors
CooldownFollows(start, n) == start + FETCH_BATCH_SIZE < n

\* asyncio.gather has returned: the results are summed, a status is written
\* per competitor; then the cooldown, or after the last batch 'completed'
BatchEnd ==
    /\ run_pc = "gathering"
    /\ \A c \in BatchOfRun(fetch_batch_start, run_input.n) : Ended(tasks[c])
    /\ total_news' = total_news + SumResults(tasks, BatchOfRun(fetch_batch_start, run_input.n))
    /\ LET written == WriteRunning(status_log, fetch_batch_start, 0,
                                   Cardinality(BatchOfRun(fetch_batch_start, run_input.n)),
                                   run_input.n)
       IN  IF CooldownFollows(fetch_batch_start, run_input.n)
           THEN /\ run_pc' = "cooldown"
                /\ status_log' = written
           ELSE IF fetch_batch_start + FETCH_BATCH_SIZE < run_input.n
           THEN /\ run_pc' = "batch"
                /\ status_log' = written
           ELSE /\ run_pc' = "returned"
                /\ status_log' = write_status(written, "completed", run_input.n, run_input.n, "")
    /\ fetch_batch_start' = IF CooldownFollows(fetch_batch_start, run_input.n)
                            THEN fetch_batch_start
                            ELSE fetch_batch_start + FETCH_BATCH_SIZE
    /\ UNCHANGED <<run_input, tasks, cooldowns, store_touched, outsideRun>>

\* await asyncio.sleep(delay), then the next pass of the loop
Cooldown ==
    /\ run_pc = "cooldown"
    /\ cooldowns' = cooldowns + 1
    /\ IF fetch_batch_start + FETCH_BATCH_SIZE < run_input.n
       THEN /\ run_pc' = "batch"
            /\ UNCHANGED status_log
       ELSE /\ run_pc' = "returned"
            /\ status_log' = write_status(status_log, "completed", run_input.n, run_input.n, "")
    /\ fetch_batch_start' = fetch_batch_start + FETCH_BATCH_SIZE
    /\ UNCHANGED <<run_input, tasks, total_news, store_touched, outsideRun>>

\* run_onboarding_logic up to the call of run_onboarding, and the head of
\* run_onboarding: the competitors and the organization are read from the
\* store, which may fail; without competitors the function returns
OnboardingStartup ==
    /\ run_pc = "startup"
    /\ run_input.kind = "onboarding_http"
    /\ store_touched' = TRUE
    /\ \E store_ok \in BOOLEAN :
          IF ~store_ok THEN RunRaises("store error")
          ELSE IF run_input.n = 0
          THEN run_pc' = "returned" /\ UNCHANGED status_log
          ELSE run_pc' = "onboard" /\ UNCHANGED status_log
    /\ UNCHANGED <<run_input, tasks, fetch_batch_start, total_news, cooldowns, outsideRun>>

\* run_onboarding: the head of a pass of its loop and the call of
\* process_competitor; with a job id a 'running' status is written (and
\* process_competitor's update_phase writes more of them while it runs)
OnboardStep ==
    /\ run_pc = "onboard"
    /\ status_log' = IF run_input.job_id
                     THEN write_job_status(status_log, "running", fetch_batch_start, run_input.n, "")
                     ELSE status_log
    /\ tasks' = [tasks EXCEPT ![fetch_batch_start + 1] = "running"]
    /\ run_pc' = "processing"
    /\ UNCHANGED <<run_input, fetch_batch_start, total_news, cooldowns, store_touched, outsideRun>>

\* process_competitor ends: when it returns the loop goes on, and after the
\* last competitor 'completed' is written for the job; when it raises, the
\* exception leaves run_onboarding
OnboardTaskEnd ==
    /\ run_pc = "processing"
    /\ \E outcome \in {"returned", "raised"} :
          /\ tasks' = [tasks EXCEPT ![fetch_batch_start + 1] = outcome]
          /\ IF outcome = "raised" THEN RunRaises("task error") /\ UNCHANGED fetch_batch_start
             ELSE /\ fetch_batch_start' = fetch_batch_start + 1
                  /\ IF fetch_batch_start + 1 < run_input.n
                     THEN run_pc' = "onboard" /\ UNCHANGED status_log
                     ELSE /\ run_pc' = "returned"
                          /\ status_log' = IF run_input.job_id
                                           THEN write_job_status(status_log, "completed", run_input.n, run_input.n, "")
                                           ELSE status_log
    /\ UNCHANGED <<run_input, total_news, cooldowns, store_touched, outsideRun>>

InitRun ==
    /\ now = StartNow
    /\ StoreIdle
    /\ GatherIdle
    /\ AnalyzeIdle
    /\ CacheIdle
    /\ RunIdle
    /\ SerperIdle
    /\ ParseIdle
    /\ NewsIdle
    /\ SyncIdle
    /\ PureIdle

NextRun ==
    \/ RunStart
    \/ RefreshStartup
    \/ RefreshPrepare
    \/ BatchStart
    \/ TaskEnd
    \/ BatchEnd
    \/ Cooldown
    \/ OnboardingStartup
    \/ OnboardStep
    \/ OnboardTaskEnd

SpecRun == InitRun /\ [][NextRun]_vars

(***************************************************************************)
(* The keyword-search requests of a process: the search_serper_async calls *)
(* that search_news_async hands to asyncio.gather, for all the competitor  *)
(* tasks of the process, on one event loop.                                *)
(***************************************************************************)
\* asyncio.Semaphore(3)
SERPER_CONCURRENCY == 3

EnsureSemaphore_per_call(sem) == [made |-> TRUE, value |-> SERPER_CONCURRENCY]

\* if SERPER_SEMAPHORE is None: SERPER_SEMAPHORE = asyncio.Semaphore(3)
EnsureSemaphore(sem) == IF sem.made THEN sem ELSE [made |-> TRUE, value |-> SERPER_CONCURRENCY]

\* the calls whose HTTP request is in flight
InFlight == {i \in DOMAIN call_pc : call_pc[i] = "in_flight"}

\* search_serper_async up to its first suspension: a cache hit or a missing
\* key returns at once; otherwise the semaphore is made if there is none,
\* and the call takes a permit and posts its request, or waits for a permit
SerperCall ==
    \E i \in DOMAIN call_pc, cached \in BOOLEAN :
        /\ call_pc[i] = "idle"
        /\ IF cached \/ ~serper_key
           THEN /\ call_pc' = [call_pc EXCEPT ![i] = "done"]
                /\ UNCHANGED <<SERPER_SEMAPHORE, semaphores_made>>
           ELSE LET sem == EnsureSemaphore(SERPER_SEMAPHORE)
                IN  /\ semaphores_made' = IF sem = SERPER_SEMAPHORE THEN semaphores_made
                                          ELSE semaphores_made + 1
                    /\ IF sem.value > 0
                       THEN /\ SERPER_SEMAPHORE' = [sem EXCEPT !.value = @ - 1]
                            /\ call_pc' = [call_pc EXCEPT ![i] = "in_flight"]
                       ELSE /\ SERPER_SEMAPHORE' = sem
                            /\ call_pc' = [call_pc EXCEPT ![i] = "waiting"]
        /\ UNCHANGED <<serper_key, outsideSerper>>

\* async with SERPER_SEMAPHORE: a waiting call is given a permit and posts its request
SerperAcquire ==
    \E i \in DOMAIN call_pc :
        /\ call_pc[i] = "waiting"
        /\ SERPER_SEMAPHORE.value > 0
        /\ SERPER_SEMAPHORE' = [SERPER_SEMAPHORE EXCEPT !.value = @ - 1]
        /\ call_pc' = [call_pc EXCEPT ![i] = "in_flight"]
        /\ UNCHANGED <<semaphores_made, serper_key, outsideSerper>>

\* the request ends, with a response or with an exception: the async with
\* block is left and the permit given back; a 400 or 403 response whose
\* body mentions credits makes the call return [] ("exhausted"), as every
\* failure does
SerperResponse ==
    \E i \in DOMAIN call_pc, outcome \in {"done", "exhausted"} :
        /\ call_pc[i] = "in_flight"
        /\ SERPER_SEMAPHORE' = [SERPER_SEMAPHORE EXCEPT !.value = @ + 1]
        /\ call_pc' = [call_pc EXCEPT ![i] = outcome]
        /\ UNCHANGED <<semaphores_made, serper_key, outsideSerper>>

InitSerper ==
    /\ now = StartNow
    /\ StoreIdle
    /\ GatherIdle
    /\ AnalyzeIdle
    /\ CacheIdle
    /\ RunIdle
    /\ SERPER_SEMAPHORE = NoSemaphore
    /\ semaphores_made = 0
    /\ serper_key \in BOOLEAN
    /\ call_pc = [i \in 1..MaxCalls |-> "idle"]
    /\ ParseIdle
    /\ NewsIdle
    /\ SyncIdle
    /\ PureIdle

NextSerper ==
    \/ SerperCall
    \/ SerperAcquire
    \/ SerperResponse

SpecSerper == InitSerper /\ [][NextSerper]_vars

(***************************************************************************)
(* _parse_gemini_grounding: the articles of one grounded response          *)
(*                                                                         *)
(* response.lines is text.split('\n'); a URI is a sequence of fragments;   *)
(* a confidence score is a number of hundredths.                           *)
(***************************************************************************)
MaxLines == 2

MaxSupports == 2

SNIPPET_TITLE_MAX == 100

\* some of the patterns
BLOCKED_URL_PATTERNS == {"linkedin.com", "x.com", "/product", "/products", "/about"}

\* str.lower(), fragment by fragment
LowerFragment(t) ==
    CASE t \in {"France", "FRANCE"} -> "france"
      [] t = "Switzerland" -> "switzerland"
      [] t = "South" -> "south"
      [] t = "Korea" -> "korea"
      [] t = "Hong" -> "hong"
      [] t = "Kong" -> "kong"
      [] t = "UK" -> "uk"
      [] t = "Canada" -> "canada"
      [] t = "Brazil" -> "brazil"
      [] t = "Paris" -> "paris"
      [] t = "La" -> "la"
      [] t = "Milwa" -> "milwa"
      [] t = "LinkedIn.com" -> "linkedin.com"
      [] t = "X.com" -> "x.com"
      [] t = "/Products" -> "/products"
      [] t = "Example" -> "example"
      [] OTHER -> t

lower(s) == [i \in DOMAIN s |-> LowerFragment(s[i])]

is_news_url_case_sensitive(url) ==
    /\ url # <<>>
    /\ \A pattern \in BLOCKED_URL_PATTERNS : ~Contains(url, <<pattern>>)

is_news_url(url) ==
    /\ url # <<>>
    /\ LET url_lower == lower(url)
       IN  \A pattern \in BLOCKED_URL_PATTERNS : ~Contains(url_lower, <<pattern>>)

NoTitle == "None"

\* grounding.grounding_chunks; the last one is not a web chunk
GroundingChunks ==
    << [web |-> TRUE, uri |-> <<"news.example", "/a">>, title |-> "A"],
       [web |-> TRUE, uri |-> <<"daily.example", "/b">>, title |-> NoTitle],
       [web |-> TRUE, uri |-> <<"linkedin.com", "/acme">>, title |-> "L"],
       [web |-> FALSE, uri |-> <<>>, title |-> NoTitle] >>

\* the lines a response's text is made of: two bulleted ones (the first names a URL in its
\* text, the second is indented), a numbered one and a plain one
TextLines ==
    { <<"*", " ", "a", " ", "text.example/x">>,
      <<" ", "-", " ", "b">>,
      <<"1", ".", " ", "c">>,
      <<"d", " ", "e">> }

Segments ==
    { [start_index |-> 0, end_index |-> 4],
      [start_index |-> 3, end_index |-> 9] }

\* what a support refers to: chunk indices and, position by position, their scores
SupportRefs ==
    { <<<<0>>, <<90>>>>, <<<<2>>, <<90>>>>, <<<<0>>, <<0>>>>,
      <<<<0, 1>>, <<30, 90>>>>, <<<<1, 0>>, <<90, 90>>>>, <<<<3, 4, 1>>, <<90, 90, 30>>>>,
      <<<<0, 1>>, <<30>>>> }

GroundingSupports ==
    { [segment |-> seg, grounding_chunk_indices |-> ref[1], confidence_scores |-> ref[2]] :
        seg \in Segments, ref \in SupportRefs }

SeqsUpTo(S, n) == UNION {[1..k -> S] : k \in 0..n}

\* a response with text and grounding metadata
GroundedResponse(ls, ss) ==
    [candidate |-> TRUE, grounding_metadata |-> TRUE, lines |-> ls, grounding_supports |-> ss]

\* responses without a candidate or without grounding metadata
BareResponses ==
    { [candidate |-> c, grounding_metadata |-> FALSE, lines |-> ls, grounding_supports |-> <<>>] :
        c \in BOOLEAN, ls \in SeqsUpTo(TextLines, 1) }

\* where line k starts in the text, every earlier line counting its newline
RECURSIVE LineStart(_, _)
LineStart(lines, k) ==
    IF k = 1 THEN 0 ELSE LineStart(lines, k - 1) + Len(lines[k - 1]) + 1

LineEnd(lines, k) == LineStart(lines, k) + Len(lines[k])

\* line_clean.startswith('*') or line_clean.startswith('-')
IsListItem(line) ==
    LET line_clean == Strip(line)
    IN  line_clean # <<>> /\ Head(line_clean) \in {"*", "-"}

Overlaps_always(start, end, seg) == TRUE

\* max(start, seg.start_index) < min(end, seg.end_index)
Overlaps(start, end, seg) ==
    Max(start, seg.start_index) < Min(end, seg.end_index)

\* zip(indices, scores)
Zip(indices, scores) ==
    [p \in 1..Min(Len(indices), Len(scores)) |-> <<indices[p], scores[p]>>]

NoBest == [best_chunk_idx |-> -1, max_score |-> 0]

\* whether the pair takes over as the best chunk of the line
Better(idx, score, chunks, best) ==
    /\ score > best.max_score
    /\ 0 <= idx /\ idx < Len(chunks)
    /\ chunks[idx + 1].web
    /\ is_news_url(chunks[idx + 1].uri)

RECURSIVE BestOfPairs(_, _, _)
BestOfPairs(pairs, chunks, best) ==
    IF pairs = <<>> THEN best
    ELSE LET idx == Head(pairs)[1]
             score == Head(pairs)[2]
         IN  BestOfPairs(Tail(pairs), chunks,
                 IF Better(idx, score, chunks, best)
                 THEN [best_chunk_idx |-> idx, max_score |-> score]
                 ELSE best)

RECURSIVE BestOfSupports(_, _, _, _, _)
BestOfSupports(supports, chunks, start, end, best) ==
    IF supports = <<>> THEN best
    ELSE LET support == Head(supports)
         IN  BestOfSupports(Tail(supports), chunks, start, end,
                 IF Overlaps(start, end, support.segment)
                 THEN BestOfPairs(Zip(support.grounding_chunk_indices, support.confidence_scores),
                                  chunks, best)
                 ELSE best)

\* the line without its marker and the whitespace after it
Snippet(line) == StripLeft(Tail(Strip(line)))

\* the article of line k; field line is the line it was taken from, which the code's
\* dict does not carry
GroundedArticle(lines, k, chunk, nw) ==
    LET snippet == Snippet(lines[k])
    IN  [title |-> IF chunk.title # NoTitle THEN <<chunk.title>>
                   ELSE SubSeq(snippet, 1, Min(Len(snippet), SNIPPET_TITLE_MAX)),
         link |-> chunk.uri,
         snippet |-> snippet,
         date |-> nw,
         search_region |-> "gemini_search",
         line |-> k]

RECURSIVE ParseLines(_, _, _, _, _, _)
ParseLines(lines, k, supports, chunks, processed_urls, nw) ==
    IF k > Len(lines) THEN <<>>
    ELSE LET best == BestOfSupports(supports, chunks, LineStart(lines, k), LineEnd(lines, k), NoBest)
             uri == chunks[best.best_chunk_idx + 1].uri
         IN  IF ~IsListItem(lines[k]) \/ best.best_chunk_idx = -1 \/ uri \in processed_urls
             THEN ParseLines(lines, k + 1, supports, chunks, processed_urls, nw)
             ELSE <<GroundedArticle(lines, k, chunks[best.best_chunk_idx + 1], nw)>>
                  \o ParseLines(lines, k + 1, supports, chunks, processed_urls \cup {uri}, nw)

parse_gemini_grounding(resp, chunks, nw) ==
    IF ~resp.candidate \/ ~resp.grounding_metadata THEN <<>>
    ELSE ParseLines(resp.lines, 1, resp.grounding_supports, chunks, {}, nw)

\* search_gemini_async hands the response it received to the parser
ParseGrounding ==
    /\ parse_pc = "ready"
    /\ parsed_articles' = parse_gemini_grounding(response, GroundingChunks, now)
    /\ parse_pc' = "parsed"
    /\ UNCHANGED <<response, outsideParse>>

InitParse ==
    /\ now = StartNow
    /\ StoreIdle
    /\ GatherIdle
    /\ AnalyzeIdle
    /\ CacheIdle
    /\ RunIdle
    /\ SerperIdle
    /\ parse_pc = "ready"
    /\ \/ response \in BareResponses
       \/ \E ls \in SeqsUpTo(TextLines, MaxLines) \ {<<>>} :
              \E ss \in SeqsUpTo(GroundingSupports, MaxSupports) :
                  response = GroundedResponse(ls, ss)
    /\ parsed_articles = <<>>
    /\ NewsIdle
    /\ SyncIdle
    /\ PureIdle

NextParse == ParseGrounding

SpecParse == InitParse /\ [][NextParse]_vars

(***************************************************************************)
(* search_news and search_news_async: the keyword searches of one          *)
(* competitor, region by region and query by query, the native-language    *)
(* searches last.  search_news_async makes the same searches at once and   *)
(* reads what they returned in the same order.                             *)
(***************************************************************************)
NUM_QUERIES == 4

NUM_RESULTS == 10

RESULT_CAP == 25

France == [gl |-> "fr", hl |-> "fr", _label |-> "france_fr"]

\* what one keyword search returns: nothing, NUM_RESULTS results of its own, or a result
\* every search shares, a blocked one, one without a link and one of its own;
\* "raised": the awaited search ended with an exception
SharedLink == <<"n.example/", "shared">>

ResultsOf(shape, label, q) ==
    CASE shape = "full" ->
            [i \in 1..NUM_RESULTS |-> [link |-> <<"n.example/", label, ToString(q), ToString(i)>>]]
      [] shape = "mixed" ->
            << [link |-> SharedLink], [link |-> <<"linkedin.com", "/x">>], [link |-> <<>>],
               [link |-> <<"n.example/", label, ToString(q), "m">>] >>
      [] OTHER -> <<>>

\* region_key if isinstance(region_key, str) else region_key.get('_label', 'native')
RegionLabel(region) == IF region.str THEN region.key ELSE region.key._label

EnglishRegion(name) == [str |-> TRUE, key |-> name]

NativeRegion(dict) == [str |-> FALSE, key |-> dict]

\* _collect, and the loop over a result of search_news_async: a result is kept when its link
\* is not empty, was not seen and is news-worthy; a link is seen once it was looked at
RECURSIVE Collect(_, _, _)
Collect(label, results_list, acc) ==
    IF results_list = <<>> THEN acc
    ELSE LET url == Head(results_list).link
         IN  Collect(label, Tail(results_list),
                 IF url # <<>> /\ url \notin acc.seen_urls
                 THEN [seen_urls |-> acc.seen_urls \cup {url},
                       all_results |-> IF is_news_url(url)
                                       THEN Append(acc.all_results,
                                                   [link |-> url, _search_region |-> label])
                                       ELSE acc.all_results]
                 ELSE acc)

CapReached_any_phase(adapter, phase, n) == adapter = "sync" /\ n >= RESULT_CAP

\* if len(all_results) >= 25: break, in the loops of search_news over the English regions
CapReached(adapter, phase, n) ==
    adapter = "sync" /\ phase = "english" /\ n >= RESULT_CAP

\* after the English regions: the native searches if there is a native region
AfterEnglish ==
    IF news_input.native_region = NoNativeRegion
    THEN [news_pc EXCEPT !.phase = "returned"]
    ELSE [news_pc EXCEPT !.phase = "native", !.region = 0, !.query = 1]

EnglishShapes == {"full", "mixed"}

NativeShapes(adapter) ==
    IF adapter = "sync" THEN {"none", "full", "mixed"} ELSE {"raised", "full", "mixed"}

\* one search of an English region, and what is kept of its results
SearchEnglish ==
    /\ news_pc.phase = "english"
    /\ \E shape \in EnglishShapes :
           LET region == news_input.regions_to_search[news_pc.region]
               found == ResultsOf(shape, region, news_pc.query)
               acc == Collect(RegionLabel(EnglishRegion(region)), found,
                              [seen_urls |-> seen_urls, all_results |-> all_results])
           IN  /\ all_results' = acc.all_results
               /\ seen_urls' = acc.seen_urls
               /\ search_log' = Append(search_log, [native |-> FALSE, results |-> found])
               /\ news_pc' =
                      IF CapReached(news_pc.adapter, "english", Len(acc.all_results))
                      THEN AfterEnglish
                      ELSE IF news_pc.query < NUM_QUERIES
                      THEN [news_pc EXCEPT !.query = @ + 1]
                      ELSE IF news_pc.region < Len(news_input.regions_to_search)
                      THEN [news_pc EXCEPT !.region = @ + 1, !.query = 1]
                      ELSE AfterEnglish
    /\ UNCHANGED <<news_input, outsideNews>>

\* one search of the native region, and what is kept of its results
SearchNative ==
    /\ news_pc.phase = "native"
    /\ \E shape \in NativeShapes(news_pc.adapter) :
           LET label == RegionLabel(NativeRegion(news_input.native_region))
               found == ResultsOf(shape, label, news_pc.query)
               acc == IF shape = "raised"
                      THEN [seen_urls |-> seen_urls, all_results |-> all_results]
                      ELSE Collect(label, found,
                                   [seen_urls |-> seen_urls, all_results |-> all_results])
           IN  /\ all_results' = acc.all_results
               /\ seen_urls' = acc.seen_urls
               /\ search_log' = Append(search_log,
                                       [native |-> TRUE, results |-> found, seen |-> seen_urls])
               /\ news_pc' =
                      IF CapReached(news_pc.adapter, "native", Len(acc.all_results))
                         \/ news_pc.query = NUM_QUERIES
                      THEN [news_pc EXCEPT !.phase = "returned"]
                      ELSE [news_pc EXCEPT !.query = @ + 1]
    /\ UNCHANGED <<news_input, outsideNews>>

InitNews ==
    /\ now = StartNow
    /\ StoreIdle
    /\ GatherIdle
    /\ AnalyzeIdle
    /\ CacheIdle
    /\ RunIdle
    /\ SerperIdle
    /\ ParseIdle
    /\ SyncIdle
    /\ PureIdle
    /\ \E adapter \in {"sync", "async"} :
           news_pc = [adapter |-> adapter, phase |-> "english", region |-> 1, query |-> 1]
    /\ \E regions_to_search \in {<<"global">>, <<"global", "mena">>} :
           \E native_region \in {NoNativeRegion, France} :
               news_input = [regions_to_search |-> regions_to_search,
                             native_region |-> native_region]
    /\ all_results = <<>>
    /\ seen_urls = {}
    /\ search_log = <<>>

NextNews ==
    \/ SearchEnglish
    \/ SearchNative

SpecNews == InitNews /\ [][NextNews]_vars

(***************************************************************************)
(* sync of sync_competitors.py: one run over the CSV and table             *)
(* "Competitor", committed at its end                                      *)
(***************************************************************************)
CompetitorNames == {"A", "B", "C"}

\* the status of a row; "null": the column is NULL; "none": the table has no row of the name
Statuses == {"none", "active", "archived", "null"}

\* the loop over companies (UPDATE ... status = 'active', or INSERT with 'active') and the
\* loop over db_by_name (archive the rows that are not in the CSV and are 'active')
SyncedRows(rows, names) ==
    [n \in DOMAIN rows |->
        IF n \in names THEN "active"
        ELSE IF rows[n] = "active" THEN "archived"
        ELSE rows[n]]

\* SELECT ... FROM "Competitor" WHERE status = 'active' OR status IS NULL
get_competitors(rows) == {n \in DOMAIN rows : rows[n] \in {"active", "null"}}

Sync ==
    /\ sync_pc = "ready"
    /\ competitor_rows' = IF dry_run THEN competitor_rows
                          ELSE SyncedRows(competitor_rows, csv_names)
    /\ sync_pc' = "done"
    /\ UNCHANGED <<csv_names, dry_run, rows_before, outsideSync>>

InitSync ==
    /\ now = StartNow
    /\ StoreIdle
    /\ GatherIdle
    /\ AnalyzeIdle
    /\ CacheIdle
    /\ RunIdle
    /\ SerperIdle
    /\ ParseIdle
    /\ NewsIdle
    /\ PureIdle
    /\ sync_pc = "ready"
    /\ competitor_rows \in [CompetitorNames -> Statuses]
    /\ rows_before = competitor_rows
    /\ csv_names \in SUBSET CompetitorNames
    /\ dry_run \in BOOLEAN

NextSync == Sync

SpecSync == InitSync /\ [][NextSync]_vars

(***************************************************************************)
(* Functions without side effects, each called once with an argument of    *)
(* the sets below.  A headquarters string and a URL are sequences of       *)
(* fragments.                                                              *)
(***************************************************************************)
\* some entries of HQ_NATIVE_REGIONS, in the order of the dict
HQ_NATIVE_REGIONS ==
    << [country |-> <<"france">>, config |-> France],
       [country |-> <<"switzerland">>,
        config |-> [gl |-> "ch", hl |-> "de", _label |-> "switzerland_de"]],
       [country |-> <<"south", " ", "korea">>,
        config |-> [gl |-> "kr", hl |-> "ko", _label |-> "korea_ko"]],
       [country |-> <<"korea">>, config |-> [gl |-> "kr", hl |-> "ko", _label |-> "korea_ko"]],
       [country |-> <<"hong", " ", "kong">>,
        config |-> [gl |-> "hk", hl |-> "zh-tw", _label |-> "hongkong_zh"]] >>

\* some entries of ENGLISH_SPEAKING_HQ
ENGLISH_SPEAKING_HQ == {<<"uk">>, <<"usa">>, <<"canada">>}

\* the loop over HQ_NATIVE_REGIONS.items(): the first country found in the string
RECURSIVE FirstCountryIn(_, _)
FirstCountryIn(hq_lower, table) ==
    IF table = <<>> THEN NoNativeRegion
    ELSE IF Contains(hq_lower, Head(table).country) THEN Head(table).config
    ELSE FirstCountryIn(hq_lower, Tail(table))

get_native_region_case_sensitive(headquarters) ==
    IF headquarters = <<>> THEN NoNativeRegion
    ELSE IF \E eng \in ENGLISH_SPEAKING_HQ : Contains(headquarters, eng) THEN NoNativeRegion
    ELSE FirstCountryIn(headquarters, HQ_NATIVE_REGIONS)

get_native_region(headquarters) ==
    IF headquarters = <<>> THEN NoNativeRegion
    ELSE LET hq_lower == lower(headquarters)
         IN  IF \E eng \in ENGLISH_SPEAKING_HQ : Contains(hq_lower, eng) THEN NoNativeRegion
             ELSE FirstCountryIn(hq_lower, HQ_NATIVE_REGIONS)

\* the parts a headquarters string is written from: a city and a country.  Field label is
\* the label of the native-language table's entry for the country named ("None": not in
\* the table); english tells whether the part names an English-speaking country, and
\* fragment whether an entry of ENGLISH_SPEAKING_HQ occurs inside one of its words
Cities ==
    { [text |-> <<>>, fragment |-> FALSE],
      [text |-> <<"Paris">>, fragment |-> FALSE],
      [text |-> <<"La", "usa", "nne">>, fragment |-> TRUE],
      [text |-> <<"Milwa", "uk", "ee">>, fragment |-> TRUE] }

Countries ==
    { [text |-> <<>>, label |-> "None", english |-> FALSE],
      [text |-> <<"France">>, label |-> "france_fr", english |-> FALSE],
      [text |-> <<"FRANCE">>, label |-> "france_fr", english |-> FALSE],
      [text |-> <<"Switzerland">>, label |-> "switzerland_de", english |-> FALSE],
      [text |-> <<"South", " ", "Korea">>, label |-> "korea_ko", english |-> FALSE],
      [text |-> <<"Korea">>, label |-> "korea_ko", english |-> FALSE],
      [text |-> <<"Hong", " ", "Kong">>, label |-> "hongkong_zh", english |-> FALSE],
      [text |-> <<"UK">>, label |-> "None", english |-> TRUE],
      [text |-> <<"Canada">>, label |-> "None", english |-> TRUE],
      [text |-> <<"Brazil">>, label |-> "None", english |-> FALSE],
      [text |-> <<"France", " ", "/", " ", "UK">>, label |-> "france_fr", english |-> TRUE] }

Headquarters(city, country) ==
    city.text \o (IF city.text # <<>> /\ country.text # <<>> THEN <<",", " ">> ELSE <<>>)
    \o country.text

\* the parts a URL is written from: what comes before a fragment that is a block-list
\* pattern in some letter case (or no such fragment), and what comes after it
UrlHeads == { <<>>, <<"https://", "Example", ".com">>, <<"https://", "phoeni">> }

UrlBlocked == { <<>>, <<"linkedin.com">>, <<"LinkedIn.com">>, <<"X.com">>, <<"/Products">>, <<"/about">> }

UrlTails == { <<>>, <<"/2024/01/acme-wins-contract">> }

CallGetNativeRegion ==
    /\ pure_call.fn = "get_native_region"
    /\ pure_result = <<>>
    /\ pure_result' = <<get_native_region(Headquarters(pure_call.city, pure_call.country))>>
    /\ UNCHANGED <<pure_call, outsidePure>>

CallIsNewsUrl ==
    /\ pure_call.fn = "is_news_url"
    /\ pure_result = <<>>
    /\ pure_result' = <<is_news_url(pure_call.head \o pure_call.blocked \o pure_call.tail)>>
    /\ UNCHANGED <<pure_call, outsidePure>>

\* The model's response text as json.loads sees it, a sequence of tokens: "{", "}", "[",
\* "]", ",", "k" (a key with its colon) and "v" (a string, a number or a literal).
MaxItems == 2

MaxCut == 3

\* the object {"news_items": [...]} with the given items
NewsItemsText(items) ==
    LET RECURSIVE Joined(_)
        Joined(its) ==
            IF its = <<>> THEN <<>>
            ELSE IF Len(its) = 1 THEN its[1]
            ELSE its[1] \o <<",">> \o Joined(Tail(its))
    IN  <<"{", "k", "[">> \o Joined(items) \o <<"]", "}">>

\* an item with one key, and one with two keys
ItemTexts == { <<"{", "k", "v", "}">>, <<"{", "k", "v", ",", "k", "v", "}">> }

ResponseTexts ==
    { NewsItemsText(items) : items \in UNION {[1..n -> ItemTexts] : n \in 0..MaxItems} }
        \cup { <<"{", "k", "v", "}">> }

\* json.loads, one token at a time: open holds the brackets that are open, expect what
\* may come next ("error": json.JSONDecodeError)
JsonStart == [open |-> <<>>, expect |-> "value"]

AfterValue(open) ==
    [open |-> open, expect |-> IF open = <<>> THEN "end" ELSE "comma_or_close"]

Pop(open) == SubSeq(open, 1, Len(open) - 1)

JsonError == [open |-> <<>>, expect |-> "error"]

JsonStep(st, tok) ==
    LET top == IF st.open = <<>> THEN "" ELSE st.open[Len(st.open)]
    IN  CASE st.expect \in {"value", "value_or_close"} /\ tok = "{" ->
                [open |-> Append(st.open, "{"), expect |-> "key_or_close"]
          [] st.expect \in {"value", "value_or_close"} /\ tok = "[" ->
                [open |-> Append(st.open, "["), expect |-> "value_or_close"]
          [] st.expect \in {"value", "value_or_close"} /\ tok = "v" -> AfterValue(st.open)
          [] st.expect = "value_or_close" /\ tok = "]" -> AfterValue(Pop(st.open))
          [] st.expect \in {"key", "key_or_close"} /\ tok = "k" ->
                [open |-> st.open, expect |-> "value"]
          [] st.expect = "key_or_close" /\ tok = "}" -> AfterValue(Pop(st.open))
          [] st.expect = "comma_or_close" /\ tok = "," ->
                [open |-> st.open, expect |-> IF top = "{" THEN "key" ELSE "value"]
          [] st.expect = "comma_or_close" /\ tok = "}" /\ top = "{" -> AfterValue(Pop(st.open))
          [] st.expect = "comma_or_close" /\ tok = "]" /\ top = "[" -> AfterValue(Pop(st.open))
          [] OTHER -> JsonError

RECURSIVE JsonRun(_, _)
JsonRun(st, text) ==
    IF text = <<>> THEN st ELSE JsonRun(JsonStep(st, Head(text)), Tail(text))

\* json.loads(text): the value the text denotes (the text stands for it), or a JSONDecodeError
NoResult == [ok |-> FALSE, value |-> <<>>, fix |-> <<>>]

json_loads(text) ==
    IF JsonRun(JsonStart, text).expect = "end"
    THEN [ok |-> TRUE, value |-> text, fix |-> <<>>]
    ELSE NoResult

TRUNCATION_FIXES_without_brace == << <<"}", "]", "}">>, <<"]", "}">> >>

\* for fix in ['}]}', ']}', '}']
TRUNCATION_FIXES == << <<"}", "]", "}">>, <<"]", "}">>, <<"}">> >>

\* the loop over the fixes: the first fix with which the text parses
RECURSIVE TryFixes(_, _)
TryFixes(text, fixes) ==
    IF fixes = <<>> THEN NoResult
    ELSE IF json_loads(text \o Head(fixes)).ok
    THEN [json_loads(text \o Head(fixes)) EXCEPT !.fix = Head(fixes)]
    ELSE TryFixes(text, Tail(fixes))

\* re.search(r'\{[\s\S]*\}', response_text): from the first "{" to the last "}"
RegexExtract(text) ==
    LET opens == {i \in DOMAIN text : text[i] = "{"}
        closes == {i \in DOMAIN text : text[i] = "}"}
    IN  IF opens = {} \/ closes = {} THEN <<>>
        ELSE LET first == CHOOSE i \in opens : \A j \in opens : i <= j
                 last_close == CHOOSE i \in closes : \A j \in closes : j <= i
             IN  IF first < last_close THEN SubSeq(text, first, last_close) ELSE <<>>

\* result = json.loads(response_text), then the fixes, then the regex
ParseResponse(response_text) ==
    IF json_loads(response_text).ok THEN json_loads(response_text)
    ELSE IF TryFixes(response_text, TRUNCATION_FIXES).ok
    THEN TryFixes(response_text, TRUNCATION_FIXES)
    ELSE IF RegexExtract(response_text) # <<>>
    THEN json_loads(RegexExtract(response_text))
    ELSE NoResult

\* the text without its last n tokens
CutOff(text, n) == SubSeq(text, 1, Len(text) - n)

CallParseResponse ==
    /\ pure_call.fn = "parse_response"
    /\ pure_result = <<>>
    /\ pure_result' = <<ParseResponse(CutOff(pure_call.text, pure_call.cut))>>
    /\ UNCHANGED <<pure_call, outsidePure>>

\* Both engines run on the same article list, the i-th model call of either being answered
\* by the i-th entry of the same script.  An entry is an exception of a kind the sync
\* engine retries, any other exception, a text no repair can parse, the no_relevant_news
\* object, or an object with one item that reports the first link of the batch ("known") or
\* a URL of no article ("unknown").
ScriptKinds ==
    {"api_error", "other_error", "unparseable", "no_relevant_news", "known", "unknown"}

ScriptedOutcome(kind, batch) ==
    CASE kind = "known" ->
            [kind |-> "news_items",
             items |-> <<[source_url |-> batch[1].link, _search_region |-> NoRegion]>>]
      [] kind = "unknown" ->
            [kind |-> "news_items", items |-> <<[source_url |-> 0, _search_region |-> NoRegion]>>]
      [] OTHER -> [kind |-> kind, items |-> <<>>]

\* the engine's two loops, from the pass `attempt` of the batch at batch_start on; calls
\* holds the number of model calls made for each batch so far
RECURSIVE EngineRun(_, _, _, _, _, _, _)
EngineRun(eng, list, script, start, a, collected, calls) ==
    IF start >= Len(list)
    THEN [calls |-> calls,
          result |-> IF collected = <<>> THEN [no_relevant_news |-> TRUE, news_items |-> <<>>]
                     ELSE [no_relevant_news |-> FALSE, news_items |-> collected]]
    ELSE LET batch == Batch(list, start)
             b == BatchNum(start)
             made == IF b \in DOMAIN calls THEN [calls EXCEPT ![b] = @ + 1] ELSE Append(calls, 1)
             pos == LET RECURSIVE Sum(_)
                        Sum(c) == IF c = <<>> THEN 0 ELSE Head(c) + Sum(Tail(c))
                    IN  Sum(made)
             outcome == ScriptedOutcome(script[pos], batch)
             items == IF outcome.kind = "news_items"
                      THEN Collected(eng, outcome.items, batch) ELSE <<>>
         IN  IF Retries(eng, outcome.kind, a)
             THEN EngineRun(eng, list, script, start, a + 1, collected \o items, made)
             ELSE EngineRun(eng, list, script, start + BATCH_SIZE, 0, collected \o items, made)

analyze_with_claude_async(list, script) == EngineRun("async", list, script, 0, 0, <<>>, <<>>)

analyze_with_claude(list, script) == EngineRun("sync", list, script, 0, 0, <<>>, <<>>)

CallBothEngines ==
    /\ pure_call.fn = "analyze"
    /\ pure_result = <<>>
    /\ pure_result' =
           <<[async |-> analyze_with_claude_async(pure_call.articles, pure_call.script),
              sync |-> analyze_with_claude(pure_call.articles, pure_call.script)]>>
    /\ UNCHANGED <<pure_call, outsidePure>>

(***************************************************************************)
(* The time window of a search.  days_back reaches the keyword-search      *)
(* request of search_news as the tbs token of its payload and the          *)
(* grounded-generation request as a number of days in its prompt;          *)
(* search_news_async calls search_serper_async without a tbs token.        *)
(***************************************************************************)
\* a days_back of 0 stands for None
DaysBack == {0, 1, 7, 30}

\* the tbs_val of search_news
tbs_val(days) ==
    IF days = 0 THEN "None"
    ELSE IF days <= 1 THEN "qdr:d"
    ELSE IF days <= 7 THEN "qdr:w"
    ELSE IF days <= 30 THEN "qdr:m"
    ELSE IF days <= 365 THEN "qdr:y"
    ELSE "None"

\* what the request of call c carries of days_back
RequestWindow(c, days) ==
    CASE c.fn = "search_serper_async" -> "None"
      [] c.fn = "search_serper" -> tbs_val(days)
      [] OTHER -> "last " \o ToString(IF days = 0 THEN 7 ELSE days) \o " days"

\* the provider answers a request with the articles of the request's window, if it finds any
ProviderAnswer(window, found) ==
    [kind |-> "ok", results |-> IF found THEN <<window>> ELSE <<>>]

WindowedCall_window_in_key(c, files, dirs, clock, days, found) ==
    LET window == RequestWindow(c, days)
        entry == files[CachingPath(c)]
    IN  IF entry.kind = "json" /\ entry.results # <<>> /\ entry.results # <<window>>
        THEN CachingCall(c, [files EXCEPT ![CachingPath(c)] = NoFile], dirs, clock,
                         ProviderAnswer(window, found), "none")
        ELSE CachingCall(c, files, dirs, clock, ProviderAnswer(window, found), "none")

\* the adapter call c made for a search over the last days days
WindowedCall(c, files, dirs, clock, days, found) ==
    CachingCall(c, files, dirs, clock, ProviderAnswer(RequestWindow(c, days), found), "none")

\* an entry is fetched with one window, then the same call is made twice
\* with two other windows when the entry has the age pure_call.age
CallTwoWindows ==
    /\ pure_call.fn = "windows"
    /\ pure_result = <<>>
    /\ LET c == pure_call.call
           fetch == WindowedCall(c, cache_files, cache_dirs, now, pure_call.fetched_for,
                                 pure_call.found)
           first == WindowedCall(c, fetch.files, fetch.dirs, now + pure_call.age,
                                 pure_call.first, pure_call.found)
           second == WindowedCall(c, first.files, first.dirs, now + pure_call.age,
                                  pure_call.second, pure_call.found)
       IN  pure_result' =
               <<[fetched |-> fetch.live,
                  first |-> [value |-> first.value, requested |-> first.requested],
                  second |-> [value |-> second.value, requested |-> second.requested]]>>
    /\ UNCHANGED <<pure_call, outsidePure>>

InitPure ==
    /\ now = StartNow
    /\ StoreIdle
    /\ GatherIdle
    /\ AnalyzeIdle
    /\ CacheIdle
    /\ RunIdle
    /\ SerperIdle
    /\ ParseIdle
    /\ NewsIdle
    /\ SyncIdle
    /\ \/ \E city \in Cities, country \in Countries :
              pure_call = [fn |-> "get_native_region", city |-> city, country |-> country]
       \/ \E head \in UrlHeads, blocked \in UrlBlocked, tail \in UrlTails :
              pure_call = [fn |-> "is_news_url", head |-> head, blocked |-> blocked, tail |-> tail]
       \/ \E text \in ResponseTexts, cut \in 0..MaxCut :
              pure_call = [fn |-> "parse_response", text |-> text, cut |-> cut]
       \/ \E n \in {1, BATCH_SIZE + 1} :
              \E script \in [1..(MAX_ATTEMPTS * TotalBatches(ArticleList(n, "mixed"))) -> ScriptKinds] :
                  pure_call = [fn |-> "analyze", articles |-> ArticleList(n, "mixed"),
                               script |-> script]
       \/ \E c \in CachingCalls, d0 \in DaysBack, d1 \in DaysBack, d2 \in DaysBack :
              \E age \in 0..MaxCacheAge, found \in BOOLEAN :
                  pure_call = [fn |-> "windows", call |-> c, fetched_for |-> d0, first |-> d1,
                               second |-> d2, age |-> age, found |-> found]
    /\ pure_result = <<>>

NextPure ==
    \/ CallGetNativeRegion
    \/ CallIsNewsUrl
    \/ CallParseResponse
    \/ CallBothEngines
    \/ CallTwoWindows

SpecPure == InitPure /\ [][NextPure]_vars

(***************************************************************************)
(* Properties of the persistence gate                                      *)
(***************************************************************************)
StoredUrls == {store[i].sourceUrl : i \in DOMAIN store}

TitlesOf(competitor_id) ==
    {store[i].title : i \in {j \in DOMAIN store : store[j].competitorId = competitor_id}}

\* the date the gate judges: a missing, unreadable or future date counts as now
EventDate(news_item) ==
    IF news_item.date = BadDate \/ news_item.date > now THEN now ELSE news_item.date

\* whether the event fails the check that rejects with the given reason
Fails(reason, competitor_id, news_item) ==
    CASE reason = "invalid_url" ->
            LET url == sanitize_text(news_item.source_url)
            IN  url = <<>> \/ Contains(url, <<"example.", "com">>)
      [] reason = "duplicate_url" -> sanitize_text(news_item.source_url) \in StoredUrls
      [] reason = "duplicate_title" -> title_check(news_item) \in TitlesOf(competitor_id)
      [] reason = "too_old" -> days_back > 0 /\ EventDate(news_item) < now - days_back
      [] reason = "pre_2025" ->
            EventDate(news_item) < cutoff /\ news_item._search_region # "gemini_search"

FailsAny(order, competitor_id, news_item) ==
    \E k \in DOMAIN order : Fails(order[k], competitor_id, news_item)

\* the positions in order of the checks the event fails
FailingChecks(order, competitor_id, news_item) ==
    {k \in DOMAIN order : Fails(order[k], competitor_id, news_item)}

\* the reason of the first of the failing checks
FirstOf(order, failing) == order[CHOOSE k \in failing : \A j \in failing : k <= j]

FirstFailing(order, competitor_id, news_item) ==
    FirstOf(order, FailingChecks(order, competitor_id, news_item))

SpecOrder == <<"invalid_url", "duplicate_url", "duplicate_title", "too_old", "pre_2025">>

CodeOrder == <<"invalid_url", "duplicate_url", "duplicate_title", "pre_2025">>

\* C1: whatever the interleaving of the threads of one batch, the store never
\* holds two news events with the same source URL (the later save of a URL is
\* rejected, so no task inserts a URL another task has inserted).
C1_BatchStoresUrlOnce ==
    \A i, j \in DOMAIN store : i # j => store[i].sourceUrl # store[j].sourceUrl

\* C2: with saves made one after the other, no two rows share a source URL;
\* in every store such saves lead to, a save of an event whose URL is stored
\* (for whatever competitor) returns (False, "duplicate_url") and stores
\* nothing, and a save of an otherwise valid event whose URL is not stored
\* returns (True, "saved") and adds exactly the row with that URL.
C2_SourceUrlStoredOnce ==
    /\ \A i, j \in DOMAIN store : i # j => store[i].sourceUrl # store[j].sourceUrl
    /\ \A c \in Competitors, item \in NewsItems :
          LET r == save_news_item(store, c, item, now)
              u == sanitize_text(item.source_url)
          IN  /\ u \in StoredUrls =>
                    r.ok = FALSE /\ r.reason = "duplicate_url" /\ r.store = store
              /\ ~FailsAny(CodeOrder, c, item) =>
                    /\ r.ok = TRUE /\ r.reason = "saved"
                    /\ Len(r.store) = Len(store) + 1
                    /\ SubSeq(r.store, 1, Len(store)) = store
                    /\ r.store[Len(r.store)].sourceUrl = u
                    /\ r.store[Len(r.store)].competitorId = c

\* a URL was saved once and the latest save was turned down as a duplicate of a stored URL
C2_Witness ==
    /\ Len(store) = 1
    /\ store[1].sourceUrl = <<"a">>
    /\ last = <<[ok |-> FALSE, reason |-> "duplicate_url"]>>

\* C3: with saves made one after the other, no two rows share competitor and
\* title; a save of an event with a valid URL that is not stored and a title
\* stored for the same competitor returns (False, "duplicate_title") and
\* stores nothing, while a title stored for other competitors only does not
\* stand in the way of (True, "saved").
C3_CompetitorTitleUnique ==
    /\ \A i, j \in DOMAIN store :
          i # j => ~(store[i].competitorId = store[j].competitorId /\ store[i].title = store[j].title)
    /\ \A c \in Competitors, item \in NewsItems :
          LET r == save_news_item(store, c, item, now)
              usable == ~Fails("invalid_url", c, item) /\ ~Fails("duplicate_url", c, item)
              title == title_check(item)
              stored == title \in TitlesOf(c)
          IN  /\ (usable /\ stored) =>
                    r.ok = FALSE /\ r.reason = "duplicate_title" /\ r.store = store
              /\ (usable /\ ~stored /\ ~Fails("pre_2025", c, item)) =>
                    /\ r.ok = TRUE /\ r.reason = "saved"
                    /\ r.store[Len(r.store)].title = title

\* one title is stored for two competitors under two URLs
C3_Witness ==
    /\ Len(store) = 2
    /\ store[1].title = store[2].title
    /\ store[1].competitorId # store[2].competitorId
    /\ store[1].sourceUrl # store[2].sourceUrl

AllFound ==
    ResultOrEmpty(results.serper) \o ResultOrEmpty(results.gemini) \o ResultOrEmpty(results.deep)

FirstIndex(list, link) ==
    CHOOSE i \in DOMAIN list :
        list[i].link = link /\ \A j \in 1..(i - 1) : list[j].link # link

\* C5: the merged list holds no link twice; it holds, for every link some
\* adapter returned, the first article with that link in the order keyword
\* search, grounded generation, deep, and it keeps that order; hence a link
\* that keyword search and a grounded-generation adapter both returned
\* appears once, as the keyword-search article with its region label.
C5_MergeKeepsFirstSeen ==
    gather_pc = "merged" =>
        /\ \A i, j \in DOMAIN merged : i # j => merged[i].link # merged[j].link
        /\ {merged[i].link : i \in DOMAIN merged} = {AllFound[i].link : i \in DOMAIN AllFound}
        /\ \A i \in DOMAIN merged : merged[i] = AllFound[FirstIndex(AllFound, merged[i].link)]
        /\ \A i, j \in DOMAIN merged :
              i < j => FirstIndex(AllFound, merged[i].link) < FirstIndex(AllFound, merged[j].link)
        /\ \A i \in DOMAIN merged :
              (\E k \in DOMAIN results.serper.value : results.serper.value[k].link = merged[i].link)
                  => /\ merged[i].snippet = "serper"
                     /\ merged[i]._search_region \in SerperRegions

\* merged, with one link that keyword search and both grounded-generation adapters returned
C5_Witness ==
    /\ gather_pc = "merged"
    /\ \E i \in DOMAIN results.serper.value, j \in DOMAIN results.gemini.value,
          k \in DOMAIN results.deep.value :
          /\ results.serper.value[i].link = results.gemini.value[j].link
          /\ results.serper.value[i].link = results.deep.value[k].link
          /\ i = 2
    /\ Len(merged) = 3

(***************************************************************************)
(* Properties of the extraction engine                                     *)
(***************************************************************************)
\* C6: the engine never ends with an exception; it calls the model at most
\* three times for a batch; a batch whose three calls all failed (provider
\* errors, unparseable responses, in any mix) contributes no item; and when
\* the engine has returned, every batch of the list has been sent to the
\* model, whatever happened to the batches before it.
C6_RetryBudget ==
    /\ analyze_pc # "raised"
    /\ \A b \in DOMAIN batch_log :
          /\ batch_log[b].calls <= 3
          /\ batch_log[b].failed = 3 => \A k \in DOMAIN item_batch : item_batch[k] # b
    /\ analyze_pc = "returned" =>
          /\ DOMAIN batch_log = 1..((Len(articles) + 11) \div 12)
          /\ \A b \in DOMAIN batch_log : batch_log[b].calls >= 1

\* returned: the first batch used up its three calls, the second gave an item
C6_Witness ==
    /\ analyze_pc = "returned"
    /\ Len(batch_log) = 2
    /\ batch_log[1].failed = 3
    /\ \E k \in DOMAIN item_batch : item_batch[k] = 2

\* C7: on either engine, every collected item whose source_url is the link
\* of an article of the batch it was extracted from carries that article's
\* _search_region.
C7_RegionReattached ==
    \A k \in DOMAIN all_news_items :
        LET batch == Batch(articles, (item_batch[k] - 1) * BATCH_SIZE)
        IN  \A i \in DOMAIN batch :
                batch[i].link = all_news_items[k].source_url
                    => all_news_items[k]._search_region = batch[i]._search_region

(***************************************************************************)
(* Properties of the result caches                                         *)
(***************************************************************************)
\* C8: in both caches, whatever the cache holds and whatever the time is,
\* a set of a result list (the empty list included) that meets no I/O
\* fault, followed at once by a get of the same key, returns that list as
\* a hit; the empty list comes back as an empty list, not as absent.
C8_RoundTrip ==
    /\ \A q \in Queries, r \in CacheRegions, t \in SearchTypes, v \in Payloads :
          LET w == _cache_set(cache_files, cache_dirs, now, q, r, t, v, "none")
          IN  ~w.raised /\ _cache_get(w.files, now, q, r, t, "none") = <<v>>
    /\ \A n \in GeminiNames, v \in Payloads :
          LET w == _gemini_cache_set(cache_files, cache_dirs, now, SearchName(n), v, "none")
          IN  ~w.raised /\ _gemini_cache_get(w.files, now, SearchName(n), "none") = <<v>>

\* a get has just returned the empty list as a hit from an entry written at this very time
C8_Witness ==
    /\ cache_last.op = "get"
    /\ cache_last.value = <<<<>>>>
    /\ cache_files[cache_last.path] = JsonFile(now, <<>>)

C10_CacheFaultsSwallowed ==
    /\ ~cache_last.raised
    /\ cache_last.live # <<>> => cache_last.value = cache_last.live

(***************************************************************************)
(* Properties of the adapters' use of the caches                           *)
(***************************************************************************)
\* C11: whatever the cache holds, every adapter call (keyword-search async
\* and sync, grounded-generation, deep grounded-generation) that sends a
\* live request has read the cache for its key before and found no fresh
\* entry; and a call whose key has a fresh entry returns the cached list
\* and sends no live request, with or without a provider key.  Reads meet
\* no I/O fault here.
C11_CacheBeforeLive ==
    \A api \in ApiOutcomes, wf \in WriteFaults :
        /\ \A q \in Queries, r \in CacheRegions :
              LET cached == _cache_get(cache_files, now, q, r, "news", "none")
                  a == search_serper_async(cache_files, cache_dirs, now, q, r, api, "none", wf)
                  b == search_serper(cache_files, cache_dirs, now, q, r, api, "none", wf)
              IN  /\ a.requested => a.cache_read /\ cached = <<>>
                  /\ b.requested => b.cache_read /\ cached = <<>>
                  /\ cached # <<>> => a.value = cached /\ ~a.requested
                  /\ cached # <<>> => b.value = cached /\ ~b.requested
        /\ \A n \in GeminiNames, site \in Websites :
              LET cached == _gemini_cache_get(cache_files, now, SearchName(n), "none")
                  g == search_gemini_async(cache_files, cache_dirs, now, n, api, "none", wf)
                  d == search_gemini_deep_async(cache_files, cache_dirs, n, site, api)
              IN  /\ g.requested => g.cache_read /\ cached = <<>>
                  /\ d.requested => d.cache_read /\ cached = <<>>
                  /\ cached # <<>> => g.value = cached /\ ~g.requested
                  /\ cached # <<>> => d.value = cached /\ ~d.requested

(***************************************************************************)
(* Properties of gather_all_articles under adapter failures                *)
(***************************************************************************)
\* C12: gather_all_articles always gets to its return; the list it returns
\* holds exactly the links that the adapters which ended without an
\* exception returned, so an adapter that raised counts as an empty list
\* and takes nothing away from the others.
C12_AdapterFailureIsolated ==
    /\ gather_pc \in {"idle", "gathered", "merged"}
    /\ gather_pc = "merged" =>
          {merged[i].link : i \in DOMAIN merged} =
              UNION { {results[a].value[i].link : i \in DOMAIN results[a].value} :
                      a \in {x \in {"serper", "gemini", "deep"} : ~results[x].raised} }

\* merged: the grounded-generation adapter raised, the two others returned
\* one article each, and both are in the merged list
C12_Witness ==
    /\ gather_pc = "merged"
    /\ results.gemini.raised
    /\ ~results.serper.raised /\ Len(results.serper.value) = 1
    /\ ~results.deep.raised /\ Len(results.deep.value) = 1
    /\ Len(merged) = 2

(***************************************************************************)
(* Properties of a pipeline run                                            *)
(***************************************************************************)
\* the competitors whose task returned
ReturnedTasks == {c \in DOMAIN tasks : tasks[c] = "returned"}

\* whether the run writes its statuses somewhere: the refresh run always
\* does, the onboarding run when it has a job id
WritesStatus == run_input.kind \in RefreshKinds \/ run_input.job_id

\* C13: in a run that has ended and in which some competitor's task raised
\* an exception, the run has ended by returning, every competitor's task
\* has been run to its end, the raising tasks count for zero items in the
\* refresh run's total, and the last status written is 'completed'.
C13_TaskFailureContained ==
    (run_pc \in {"returned", "raised"} /\ \E c \in DOMAIN tasks : tasks[c] = "raised") =>
        /\ run_pc = "returned"
        /\ \A c \in DOMAIN tasks : tasks[c] \in {"returned", "raised"}
        /\ run_input.kind \in RefreshKinds => total_news = SumResults(tasks, ReturnedTasks)
        /\ WritesStatus =>
              status_log # <<>> /\ status_log[Len(status_log)].status = "completed"

\* the batch a competitor of the list belongs to, counted from 0
BatchIndex(c) == (c - 1) \div FETCH_BATCH_SIZE

\* the refresh run has left its loop in the normal way
RefreshCompleted ==
    /\ run_input.kind \in RefreshKinds
    /\ run_pc = "returned"
    /\ status_log # <<>>
    /\ status_log[Len(status_log)].status = "completed"

\* C14: at most 5 per-competitor tasks are in progress at any instant; in
\* the refresh run the competitors are taken in list order in batches of 5,
\* no task of a later batch has started while a task of an earlier batch
\* has not finished, one cooldown has been slept before each batch but the
\* first, and none follows the last batch.
C14_BatchesOfFive ==
    /\ Cardinality({c \in DOMAIN tasks : tasks[c] = "running"}) <= 5
    /\ run_input.kind \in RefreshKinds =>
          /\ \A c, d \in DOMAIN tasks :
                (BatchIndex(c) < BatchIndex(d) /\ tasks[d] # "waiting") => Ended(tasks[c])
          /\ \A c, d \in DOMAIN tasks :
                (BatchIndex(c) = BatchIndex(d) /\ tasks[c] = "waiting") => tasks[d] = "waiting"
          /\ run_pc \in {"batch", "gathering"} =>
                /\ fetch_batch_start % FETCH_BATCH_SIZE = 0
                /\ cooldowns = fetch_batch_start \div FETCH_BATCH_SIZE
          /\ RefreshCompleted /\ run_input.n > 0 =>
                cooldowns = (run_input.n + FETCH_BATCH_SIZE - 1) \div FETCH_BATCH_SIZE - 1

\* a refresh run of six competitors has completed: two batches, one cooldown
C14_Witness ==
    /\ RefreshCompleted
    /\ run_input.n = 6
    /\ cooldowns = 1
    /\ \A c \in DOMAIN tasks : Ended(tasks[c])

\* the positions of the status log that hold a terminal status
TerminalWrites == {i \in DOMAIN status_log : status_log[i].status \in {"completed", "error"}}

\* C16: no status is ever recorded after a terminal one, and a run that has
\* ended, on whatever path, has recorded exactly one terminal status
\* (completed or error) as its last status.
C16_OneTerminalStatus ==
    /\ \A i \in TerminalWrites : i = Len(status_log)
    /\ run_pc \in {"returned", "raised"} => Cardinality(TerminalWrites) = 1

\* the run has ended, by returning or by raising
RunEnded == run_pc \in {"returned", "raised"}

\* the run has written an error status and nothing else, and has done no work
AbortedBeforeWork ==
    /\ Len(status_log) = 1
    /\ status_log[1].status = "error"
    /\ ~store_touched
    /\ \A c \in DOMAIN tasks : tasks[c] = "waiting"
    /\ total_news = 0

C15_ThreeInFlight ==
    /\ Cardinality(InFlight) <= 3
    /\ semaphores_made <= 1
    /\ InFlight # {} => SERPER_SEMAPHORE.made
    /\ SERPER_SEMAPHORE.made =>
          /\ semaphores_made = 1
          /\ SERPER_SEMAPHORE.value + Cardinality(InFlight) = SERPER_CONCURRENCY

\* three requests are in flight while another call waits for a permit
C15_Witness ==
    /\ Cardinality(InFlight) = 3
    /\ \E i \in DOMAIN call_pc : call_pc[i] = "waiting"
    /\ SERPER_SEMAPHORE.value = 0
    /\ semaphores_made = 1

(***************************************************************************)
(* Properties of the cutoff                                                *)
(***************************************************************************)
\* the item passes the URL and title checks against the store as it is
PassesChecks(c, item) ==
    /\ ~InvalidUrl(sanitize_text(item.source_url))
    /\ ~check_existing_url(store, sanitize_text(item.source_url))
    /\ ~title_exists(store, c, title_check(item))

\* the item carries a well-formed date before 2025-01-01
DatedBeforeCutoff(item) == item.date # BadDate /\ item.date < cutoff

\* C18: an item with a valid URL and a title not yet stored, dated before
\* the cutoff and not tagged 'gemini_search', is answered (False, "pre_2025")
\* and the store stays as it is.
C18_PreCutoffRejected ==
    \A c \in Competitors, item \in NewsItems :
        (DatedBeforeCutoff(item) /\ item._search_region # "gemini_search"
            /\ PassesChecks(c, item)) =>
            LET r == save_news_item(store, c, item, now)
            IN  /\ ~r.ok
                /\ r.reason = "pre_2025"
                /\ r.store = store

\* a call was answered pre_2025 while the store held rows
C18_Witness ==
    /\ last = <<[ok |-> FALSE, reason |-> "pre_2025"]>>
    /\ store # <<>>

\* C19: an item tagged 'gemini_search' and dated before the cutoff is
\* stored with the current time as its date, and so no stored row, from
\* any source, has a date before the cutoff.
C19_GeminiDateCoerced ==
    /\ \A i \in DOMAIN store : store[i].date >= cutoff
    /\ \A c \in Competitors, item \in NewsItems :
          (PassesChecks(c, item) /\ DatedBeforeCutoff(item)
              /\ item._search_region = "gemini_search") =>
              LET r == save_news_item(store, c, item, now)
              IN  /\ r.ok
                  /\ r.store[Len(r.store)].date = now

(***************************************************************************)
(* Properties of the threat level                                          *)
(***************************************************************************)
\* the threat level of the row that saving the item appends
StoredThreat(c, item) ==
    LET r == save_news_item(store, c, item, now)
    IN  r.store[Len(r.store)].threatLevel

\* C20 as stated: every stored row has a threat level in 1..5, and every
\* numeric input t, whole or fractional, is stored as min(5, max(1, t)).
C20_ThreatClampedAnyInput ==
    /\ \A i \in DOMAIN store : store[i].threatLevel \in 1..5
    /\ \A c \in Competitors, item \in ThreatItems :
          PassesChecks(c, item) =>
              LET t == item.threat_level
              IN  /\ save_news_item(store, c, item, now).ok
                  /\ t.kind \in {"int", "numeral"} =>
                        StoredThreat(c, item) = Min(5, Max(1, t.v))
                  /\ t.kind = "float" =>
                        10 * StoredThreat(c, item) = Min(50, Max(10, t.v))

\* C20, amended: every stored row has a threat level in 1..5; an integer
\* input t, or a string holding an integer, is stored as min(5, max(1, t));
\* a fraction is cut towards zero first; a missing or null value, or a
\* string that is not an integer, is stored as 2.
C20_ThreatClamped ==
    /\ \A i \in DOMAIN store : store[i].threatLevel \in 1..5
    /\ \A c \in Competitors, item \in ThreatItems :
          PassesChecks(c, item) =>
              LET t == item.threat_level
              IN  /\ save_news_item(store, c, item, now).ok
                  /\ t.kind \in {"int", "numeral"} =>
                        StoredThreat(c, item) = Min(5, Max(1, t.v))
                  /\ t.kind = "float" =>
                        \E k \in -10..10 :
                            /\ t.v >= 0 => (10 * k <= t.v /\ t.v < 10 * k + 10)
                            /\ t.v < 0 => (10 * k - 10 < t.v /\ t.v <= 10 * k)
                            /\ StoredThreat(c, item) = Min(5, Max(1, k))
                  /\ t.kind \in {"missing", "null", "text"} => StoredThreat(c, item) = 2

\* two rows were saved, one clamped down to 5 and one clamped up to 1
C20_Witness ==
    /\ Len(store) = 2
    /\ store[1].threatLevel = 5
    /\ store[2].threatLevel = 1
    /\ last = <<[ok |-> TRUE, reason |-> "saved"]>>

(***************************************************************************)
(* Properties of the stored date                                           *)
(***************************************************************************)
\* the date of the row that saving the item appends
StoredDate(c, item) ==
    LET r == save_news_item(store, c, item, now)
    IN  r.store[Len(r.store)].date

\* C21: every stored row's date is at most its extraction time; an item
\* whose date lies in the future, or cannot be parsed, is stored with the
\* time of the save as its date.
C21_DateNotAfterExtraction ==
    /\ \A i \in DOMAIN store : store[i].date <= store[i].extractedAt
    /\ \A c \in Competitors, item \in NewsItems :
          ((item.date = BadDate \/ item.date > now) /\ PassesChecks(c, item)) =>
              /\ save_news_item(store, c, item, now).ok
              /\ StoredDate(c, item) = now

\* the store holds a row dated at its extraction time and a row dated before it
C21_Witness ==
    /\ \E i \in DOMAIN store : store[i].date = store[i].extractedAt
    /\ \E j \in DOMAIN store : store[j].date < store[j].extractedAt
    /\ now > StartNow

(***************************************************************************)
(* Properties of store errors                                              *)
(***************************************************************************)
\* C22: a store error during save_news_item, in the existence checks or in
\* the insert, is answered with a return value: no task's loop over its
\* events is left by an exception, and a task that is done has an answer
\* for each of its events.
C22_StoreErrorReturned ==
    \A t \in DOMAIN task :
        /\ task[t].pc # "raised"
        /\ task[t].pc = "done" => Len(task[t].status) = Len(task[t].news_items)

(***************************************************************************)
(* Properties of a repeated run                                            *)
(***************************************************************************)
\* C23: throughout the second run of the pipeline for the same competitor,
\* with the same articles and events, no row is inserted: the store equals
\* the store the first run left and the run's count of saved events is 0.
C23_RerunInsertsNothing ==
    task.run = 2 =>
        /\ store = task.first_store
        /\ task.saved = 0

\* the second run has ended, after handing an event to save_news_item, on a
\* store that the first run had filled
C23_Witness ==
    /\ task.run = 2
    /\ task.pc = "end"
    /\ task.submitted >= 1
    /\ store # <<>>
    /\ now > StartNow

(***************************************************************************)
(* Properties of a competitor's run                                        *)
(***************************************************************************)
\* the competitor's run has returned
CompetitorReturned == task # <<>> /\ task.pc = "returned"

\* the model answered every batch with the no_relevant_news object
AllSentinel ==
    /\ batch_log # <<>>
    /\ \A b \in DOMAIN batch_log : batch_log[b].sentinels = 1

\* C24: a competitor's run in which the model answered every batch with
\* {"no_relevant_news": true} hands no event to save_news_item, saves
\* nothing and leaves the store empty: no substitute event is made up.
C24_SentinelSavesNothing ==
    (CompetitorReturned /\ AllSentinel) =>
        /\ task.submitted = <<>>
        /\ task.saved = 0
        /\ store = <<>>

\* a run of two batches, each answered with the sentinel (one of them after
\* a failed call), has returned
C24_Witness ==
    /\ CompetitorReturned
    /\ AllSentinel
    /\ Len(batch_log) = 2
    /\ \E b \in DOMAIN batch_log : batch_log[b].failed >= 1

\* C25: a competitor's run whose engine was handed at least one article
\* and collected no event hands exactly one event to save_news_item.
C25_FallbackSubmitted ==
    (CompetitorReturned /\ articles # <<>> /\ all_news_items = <<>>) =>
        Len(task.submitted) = 1

(***************************************************************************)
(* Properties of the deep adapter and of the returned articles             *)
(***************************************************************************)
\* C26: in a gather run the deep adapter is started only when keyword
\* search has returned no article: when keyword search returned an article,
\* no deep call was made.
C26_DeepOnlyAfterEmptySearch ==
    (gather_pc # "idle" /\ results.website) => ResultOrEmpty(results.serper) = <<>>

\* links standing for a URL with a generic root-level path (such as /news)
\* and for a URL whose existence check answers 404
RootPathLinks == {"l2"}

DeadLinks == {"l3"}

\* C27: no article that gather_all_articles returns has a generic
\* root-level path or a URL whose existence check answered 400 or above.
C27_ReturnedArticlesValidated ==
    gather_pc = "merged" =>
        \A i \in DOMAIN merged : merged[i].link \notin RootPathLinks \cup DeadLinks

(***************************************************************************)
(* Properties of credit exhaustion                                         *)
(***************************************************************************)
\* a keyword-search response of the run has signalled exhausted credits
ExhaustionSeen == \E i \in DOMAIN call_pc : call_pc[i] = "exhausted"

\* C28: once a keyword-search response has signalled exhausted credits,
\* no call of the run sends a live request any more.
C28_NoRequestAfterExhaustion ==
    [][ExhaustionSeen =>
          \A j \in DOMAIN call_pc : call_pc'[j] = "in_flight" => call_pc[j] = "in_flight"]_vars

(***************************************************************************)
(* Properties of the grounding parser                                      *)
(***************************************************************************)
Parsed == parse_pc = "parsed"

SegmentChars(seg) == seg.start_index .. (seg.end_index - 1)

\* the supports whose segment shares a character with line k
SupportsOn(k) ==
    {n \in DOMAIN response.grounding_supports :
        \E x \in SegmentChars(response.grounding_supports[n].segment) :
            /\ LineStart(response.lines, k) <= x
            /\ x < LineEnd(response.lines, k)}

\* the news-worthy web chunks a support on line k refers to, each with the score given to it
NewsRefsOn(k) ==
    {ref \in UNION { {<<support.grounding_chunk_indices[p], support.confidence_scores[p]>> :
                        p \in DOMAIN support.grounding_chunk_indices
                              \cap DOMAIN support.confidence_scores} :
                     support \in {response.grounding_supports[n] : n \in SupportsOn(k)} } :
        /\ ref[1] \in 0..(Len(GroundingChunks) - 1)
        /\ GroundingChunks[ref[1] + 1].web
        /\ is_news_url(GroundingChunks[ref[1] + 1].uri)}

\* C29: the link of every article the parser returns is the URI of a news-worthy chunk that
\* a support overlapping the article's line refers to, no news-worthy chunk on that line
\* has a higher score, and no line gives two articles
C29_LinkIsBestGroundedChunk ==
    Parsed =>
        /\ \A n \in DOMAIN parsed_articles :
               \E ref \in NewsRefsOn(parsed_articles[n].line) :
                   /\ parsed_articles[n].link = GroundingChunks[ref[1] + 1].uri
                   /\ \A other \in NewsRefsOn(parsed_articles[n].line) : other[2] <= ref[2]
        /\ \A n, m \in DOMAIN parsed_articles :
               n # m => parsed_articles[n].line # parsed_articles[m].line

\* an article was returned for a line that has two news-worthy chunks of different scores,
\* while a support elsewhere in the text refers to yet another URI
C29_Witness ==
    /\ Parsed
    /\ \E n \in DOMAIN parsed_articles :
           /\ \E r, q \in NewsRefsOn(parsed_articles[n].line) : r[1] # q[1] /\ r[2] < q[2]
           /\ \E j \in DOMAIN response.grounding_supports :
                  j \notin SupportsOn(parsed_articles[n].line)

\* bulleted or numbered
ListFormatted(line) ==
    \/ IsListItem(line)
    \/ LET line_clean == Strip(line)
       IN  Len(line_clean) >= 2 /\ line_clean[1] = "1" /\ line_clean[2] = "."

\* line k has a news-worthy chunk of positive score that no other line's article has taken
Grounded(k) ==
    /\ \E ref \in NewsRefsOn(k) : ref[2] > 0
    /\ \A n \in DOMAIN parsed_articles :
           parsed_articles[n].line # k =>
               \A ref \in NewsRefsOn(k) : GroundingChunks[ref[1] + 1].uri # parsed_articles[n].link

\* C30: every article comes from a bulleted or numbered line, and every grounded bulleted or
\* numbered line gives an article
C30_ListLinesAreMentions ==
    (Parsed /\ response.candidate /\ response.grounding_metadata) =>
        /\ \A n \in DOMAIN parsed_articles : ListFormatted(response.lines[parsed_articles[n].line])
        /\ \A k \in DOMAIN response.lines :
               (ListFormatted(response.lines[k]) /\ Grounded(k)) =>
                   \E n \in DOMAIN parsed_articles : parsed_articles[n].line = k

(***************************************************************************)
(* Properties of the keyword-search adapter                                *)
(***************************************************************************)
NewsReturned == news_pc.phase = "returned"

NativeTagged(r) == r._search_region = RegionLabel(NativeRegion(news_input.native_region))

NativeSearches == {n \in DOMAIN search_log : search_log[n].native}

\* C31: in what the adapter returns no English-tagged article follows a native-tagged one;
\* with a native region the native search of every query was made, and each of its results
\* that has a news-worthy link not seen before it is returned, tagged native
C31_NativeLastAndUncapped ==
    NewsReturned =>
        /\ \A i, j \in DOMAIN all_results :
               (NativeTagged(all_results[i]) /\ ~NativeTagged(all_results[j])) => j < i
        /\ news_input.native_region # NoNativeRegion =>
               /\ Cardinality(NativeSearches) = NUM_QUERIES
               /\ \A n \in NativeSearches :
                      \A k \in DOMAIN search_log[n].results :
                          LET url == search_log[n].results[k].link
                          IN  (url # <<>> /\ is_news_url(url) /\ url \notin search_log[n].seen) =>
                                  \E i \in DOMAIN all_results :
                                      /\ all_results[i].link = url
                                      /\ NativeTagged(all_results[i])

\* search_news returned after the cap ended the English searches early, with native articles
\* of more than one native search behind more than RESULT_CAP English ones
C31_Witness ==
    /\ NewsReturned
    /\ news_pc.adapter = "sync"
    /\ Cardinality(DOMAIN search_log \ NativeSearches)
           < NUM_QUERIES * Len(news_input.regions_to_search)
    /\ Cardinality({i \in DOMAIN all_results : ~NativeTagged(all_results[i])}) > RESULT_CAP
    /\ Cardinality({i \in DOMAIN all_results : NativeTagged(all_results[i])}) > NUM_RESULTS

(***************************************************************************)
(* Properties of get_native_region and is_news_url                         *)
(***************************************************************************)
NativeRegionReturned == pure_call.fn = "get_native_region" /\ pure_result # <<>>

NewsUrlReturned == pure_call.fn = "is_news_url" /\ pure_result # <<>>

\* C33: is_news_url is false for the empty URL and for a URL with a fragment that is a
\* block-list pattern in some letter case, and true for every other URL,
\* https://example.com/2024/01/acme-wins-contract among them
C33_BlockListDecides ==
    NewsUrlReturned =>
        /\ pure_result[1] =
               (pure_call.blocked = <<>> /\ pure_call.head \o pure_call.tail # <<>>)
        /\ (/\ pure_call.head = <<"https://", "Example", ".com">>
            /\ pure_call.blocked = <<>>
            /\ pure_call.tail = <<"/2024/01/acme-wins-contract">>) => pure_result[1]

\* is_news_url returned false for a URL whose blocked fragment is not in lower case
C33_Witness ==
    /\ NewsUrlReturned
    /\ pure_call.blocked = <<"LinkedIn.com">>
    /\ pure_call.tail # <<>>
    /\ ~pure_result[1]

(***************************************************************************)
(* Properties of the engine's batches                                      *)
(***************************************************************************)
RECURSIVE SentInOrder(_)
SentInOrder(log) ==
    IF log = <<>> THEN <<>> ELSE Head(log).sent \o SentInOrder(Tail(log))

\* the least k with n <= BATCH_SIZE * k
CeilOfBatches(n) == CHOOSE k \in 0..n : n <= BATCH_SIZE * k /\ (k = 0 \/ n > BATCH_SIZE * (k - 1))

\* C34: when the engine has returned, the prompts' articles, batch after batch, are the
\* article list in input order, each article once; no batch holds more than BATCH_SIZE
\* articles, every batch but the last holds BATCH_SIZE, and there are ceil(n / BATCH_SIZE)
\* batches
C34_BatchesPartitionArticles ==
    analyze_pc = "returned" =>
        /\ SentInOrder(batch_log) = [i \in DOMAIN articles |-> articles[i].link]
        /\ \A b \in DOMAIN batch_log :
               /\ Len(batch_log[b].sent) <= BATCH_SIZE
               /\ b < Len(batch_log) => Len(batch_log[b].sent) = BATCH_SIZE
        /\ Len(batch_log) = CeilOfBatches(Len(articles))

\* the engine returned after two batches, the second shorter than the first and the first
\* sent more than once
C34_Witness ==
    /\ analyze_pc = "returned"
    /\ Len(batch_log) = 2
    /\ Len(batch_log[2].sent) < BATCH_SIZE
    /\ batch_log[1].calls > 1

(***************************************************************************)
(* Properties of the truncation repair                                     *)
(***************************************************************************)
\* a news_items object was parsed after exactly its final closing brace was cut off
FinalBraceCut ==
    /\ pure_call.fn = "parse_response"
    /\ pure_result # <<>>
    /\ pure_call.cut = 1
    /\ pure_call.text[3] = "["

\* C35, as claimed: with the final closing brace cut off, the text parses once "}]}" is
\* appended to it
C35_RepairedByFirstFix ==
    FinalBraceCut => json_loads(CutOff(pure_call.text, 1) \o TRUNCATION_FIXES[1]).ok

\* C35: with the final closing brace cut off, the repair returns the value of the whole
\* text, and it is the fix "}" that parses, the fixes "}]}" and "]}" do not
C35_RepairedByLastFix ==
    FinalBraceCut =>
        /\ pure_result[1].ok
        /\ pure_result[1].value = pure_call.text
        /\ pure_result[1].value = json_loads(pure_call.text).value
        /\ pure_result[1].fix = <<"}">>
        /\ ~json_loads(CutOff(pure_call.text, 1) \o <<"}", "]", "}">>).ok
        /\ ~json_loads(CutOff(pure_call.text, 1) \o <<"]", "}">>).ok

\* the repair recovered an object with two items
C35_Witness ==
    /\ FinalBraceCut
    /\ Len(pure_call.text) > 12
    /\ pure_result[1].ok
    /\ pure_result[1].fix # <<>>

(***************************************************************************)
(* Properties of the competitor sync                                       *)
(***************************************************************************)
\* C36: after a sync that is not a dry run no row is gone, every row whose name is not in
\* the CSV is archived, so that get_competitors selects no competitor absent from the CSV,
\* and every name of the CSV has an active row
C36_AbsentArchived ==
    (sync_pc = "done" /\ ~dry_run) =>
        /\ \A n \in CompetitorNames : rows_before[n] # "none" => competitor_rows[n] # "none"
        /\ \A n \in CompetitorNames \ csv_names :
               competitor_rows[n] # "none" => competitor_rows[n] = "archived"
        /\ get_competitors(competitor_rows) \subseteq csv_names
        /\ \A n \in csv_names : competitor_rows[n] = "active"

(***************************************************************************)
(* The two engines compared                                                *)
(***************************************************************************)
\* C37: given the same articles and the same answers to their model calls, the two engines
\* make the same number of calls for each batch and return the same result
C37_EnginesEquivalent ==
    (pure_call.fn = "analyze" /\ pure_result # <<>>) =>
        /\ pure_result[1].async.calls = pure_result[1].sync.calls
        /\ pure_result[1].async.result = pure_result[1].sync.result

(***************************************************************************)
(* Properties of the cache writes of the adapters                          *)
(***************************************************************************)
\* C38: whatever the cache holds, an adapter call changes a cache file only
\* when its live request gave a result list; a call whose live request
\* failed or signalled exhausted credits leaves every file as it was, and
\* the next call for the same key, now or later, sends a live request
\* again; a call whose live request gave an empty list writes an entry
\* holding the empty list.
C38_WrittenOnlyAfterSuccess ==
    \A c \in CachingCalls, api \in ApiOutcomes, wf \in WriteFaults :
        LET out == CachingCall(c, cache_files, cache_dirs, now, api, wf)
        IN  /\ out.files # cache_files =>
                    api.kind = "ok" /\ out.requested /\ out.live = Returns(api.results)
            /\ (out.requested /\ api.kind # "ok") =>
                    /\ out.files = cache_files
                    /\ \A later \in now..(StartNow + MaxCacheAge), again \in ApiOutcomes :
                           again.kind # "no_key" =>
                               CachingCall(c, out.files, out.dirs, later, again, wf).requested
            /\ (out.requested /\ api.kind = "ok" /\ api.results = <<>> /\ wf = "none") =>
                    out.files[CachingPath(c)] = JsonFile(now, <<>>)

\* an adapter's live request has just given an empty list, and the entry of its key holds it
C38_Witness ==
    /\ cache_last.op \in {"search_serper_async", "search_serper", "search_gemini_async"}
    /\ cache_last.live = Returns(<<>>)
    /\ cache_files[cache_last.path] = JsonFile(now, <<>>)

(***************************************************************************)
(* Properties of the time window and the cache                             *)
(***************************************************************************)
\* the TTL of the cache that call c uses
TtlOf(c) == IF c.fn = "search_gemini_async" THEN GEMINI_CACHE_TTL ELSE SERPER_CACHE_TTL

\* the two calls were made while the entry fetched before them was fresh
TwoWindowsOnFreshEntry ==
    /\ pure_call.fn = "windows"
    /\ pure_result # <<>>
    /\ pure_call.age < TtlOf(pure_call.call)

\* C39: two calls of an adapter for the same key that differ in days_back
\* only, made while the key has a fresh entry, send no live request and
\* both return the payload of the entry, which is the list fetched with
\* the window of the call that wrote it, whatever the windows of the two
\* calls are.
C39_HitIgnoresWindow ==
    TwoWindowsOnFreshEntry =>
        /\ pure_result[1].first = pure_result[1].second
        /\ ~pure_result[1].first.requested
        /\ pure_result[1].first.value = pure_result[1].fetched
        /\ pure_result[1].fetched =
               <<IF pure_call.found
                 THEN <<RequestWindow(pure_call.call, pure_call.fetched_for)>>
                 ELSE <<>>>>

\* two keyword searches for a day and for a month both got the articles fetched for a week
C39_Witness ==
    /\ TwoWindowsOnFreshEntry
    /\ pure_call.call.fn = "search_serper"
    /\ pure_call.fetched_for = 7
    /\ pure_call.first = 1
    /\ pure_call.second = 30
    /\ pure_result[1].first.value = <<<<"qdr:w">>>>
    /\ pure_result[1].second.value = <<<<"qdr:w">>>>

(***************************************************************************)
(* Properties of the progress a refresh run reports                        *)
(***************************************************************************)
\* the run at hand is a refresh run
RefreshRun == run_input.kind \in RefreshKinds

\* C40: in the statuses a refresh run has written so far, the processed
\* count never decreases from one status to the next and never exceeds
\* total, total is the same in all of them, percent_complete lies between
\* 0 and 100, and a completed status comes after a status whose processed
\* count had reached total.
C40_ProgressMonotone ==
    RefreshRun =>
        /\ \A i \in DOMAIN status_log :
               /\ status_log[i].processed \in 0..status_log[i].total
               /\ status_log[i].percent_complete \in 0..100
               /\ status_log[i].status = "completed" =>
                      \E j \in 1..(i - 1) : status_log[j].processed = status_log[j].total
        /\ \A i, j \in DOMAIN status_log :
               i < j =>
                   /\ status_log[i].processed <= status_log[j].processed
                   /\ status_log[i].total = status_log[j].total

\* a refresh run over two batches has written its completed status after
\* statuses with every processed count from 0 to total
C40_Witness ==
    /\ RefreshRun
    /\ run_pc = "returned"
    /\ run_input.n > FETCH_BATCH_SIZE
    /\ status_log # <<>>
    /\ status_log[Len(status_log)] = Status("completed", run_input.n, run_input.n, "")
    /\ \A k \in 0..run_input.n : \E i \in DOMAIN status_log : status_log[i].processed = k
    /\ \E i \in DOMAIN status_log : status_log[i].percent_complete \notin {0, 100}

====
